---- MODULE Spec2Model ----
(***************************************************************************)
(* Label Simplified: the two model clients of the label pipeline.          *)
(*   agent/ocr.ts      analyzeLabel       (vision extraction client)       *)
(*   agent/explain.ts  explainIngredients (explanation client)             *)
(*                                                                         *)
(* JavaScript values are tagged records; a JavaScript string is a sequence *)
(* of one-character strings, so that trim, toLowerCase, split and          *)
(* JSON.parse are computed character by character.  Numbers are integers   *)
(* counting ten-thousandths (Scale), so 0.2 is 2000 and 0.95 is 9500.      *)
(***************************************************************************)
EXTENDS Integers, Sequences, FiniteSets, TLC

\* ------------------------------------------------------------------------
\* JavaScript values
\* ------------------------------------------------------------------------
Scale == 10000

Undefined == [t |-> "undefined"]
Null == [t |-> "null"]
Str(s) == [t |-> "str", s |-> s]
Num(n) == [t |-> "num", n |-> n]
NaN == [t |-> "nan"]
Bool(b) == [t |-> "bool", b |-> b]
Arr(a) == [t |-> "arr", a |-> a]
Obj(f) == [t |-> "obj", f |-> f]
EmptyObj == Obj(<<>>)

IsString(v) == v.t = "str"
IsArray(v) == v.t = "arr"

\* typeof v === "object" && v  (arrays are objects, null is not truthy)
IsObjectLike(v) == v.t \in {"obj", "arr"}

\* JavaScript truthiness: !v is the negation
Truthy(v) ==
  CASE v.t = "undefined" -> FALSE
    [] v.t = "null" -> FALSE
    [] v.t = "nan" -> FALSE
    [] v.t = "str" -> v.s # <<>>
    [] v.t = "num" -> v.n # 0
    [] v.t = "bool" -> v.b
    [] OTHER -> TRUE

\* v?.key : undefined for null/undefined receivers and for absent keys.
\* Strings, numbers and booleans have none of the keys the clients read.
OptGet(v, key) ==
  IF v.t = "obj" /\ key \in DOMAIN v.f THEN v.f[key] ELSE Undefined

\* v.key without optional chaining: a TypeError on null and undefined
GetThrows(v) == v.t \in {"null", "undefined"}

\* ------------------------------------------------------------------------
\* JSON.parse on a character sequence (no \u escapes, no exponents: the
\* texts of the model use neither).  A result is [ok |-> FALSE] or
\* [ok |-> TRUE, v |-> value, pos |-> index after the value].
\* ------------------------------------------------------------------------
ParseFail == [ok |-> FALSE]
ParseOk(v, pos) == [ok |-> TRUE, v |-> v, pos |-> pos]

IsWs(c) == c \in {" ", "\n", "\t", "\r"}
Digits == <<"0", "1", "2", "3", "4", "5", "6", "7", "8", "9">>
IsDigit(c) == \E d \in 1..10 : Digits[d] = c
DigitVal(c) == (CHOOSE d \in 1..10 : Digits[d] = c) - 1

RECURSIVE SkipWs(_, _)
SkipWs(s, i) == IF i <= Len(s) /\ IsWs(s[i]) THEN SkipWs(s, i + 1) ELSE i

StartsWithAt(s, i, lit) ==
  /\ i + Len(lit) - 1 <= Len(s)
  /\ SubSeq(s, i, i + Len(lit) - 1) = lit

\* a string after its opening quote: the escapes \" \\ \/ \n \t \r are
\* decoded, any other escape and a raw control character are a SyntaxError
RECURSIVE ScanString(_, _, _)
ScanString(s, i, acc) ==
  IF i > Len(s) THEN ParseFail
  ELSE IF s[i] = "\"" THEN ParseOk(Str(acc), i + 1)
  ELSE IF s[i] \in {"\n", "\t", "\r"} THEN ParseFail
  ELSE IF s[i] = "\\" THEN
    IF i + 1 > Len(s) THEN ParseFail
    ELSE IF s[i + 1] \in {"\"", "\\", "/"} THEN ScanString(s, i + 2, Append(acc, s[i + 1]))
    ELSE IF s[i + 1] = "n" THEN ScanString(s, i + 2, Append(acc, "\n"))
    ELSE IF s[i + 1] = "t" THEN ScanString(s, i + 2, Append(acc, "\t"))
    ELSE IF s[i + 1] = "r" THEN ScanString(s, i + 2, Append(acc, "\r"))
    ELSE ParseFail
  ELSE ScanString(s, i + 1, Append(acc, s[i]))

ParseString(s, i) == ScanString(s, i + 1, <<>>)

RECURSIVE DigitsEnd(_, _)
DigitsEnd(s, i) == IF i <= Len(s) /\ IsDigit(s[i]) THEN DigitsEnd(s, i + 1) ELSE i

RECURSIVE IntOf(_, _, _)
IntOf(s, i, j) == IF j < i THEN 0 ELSE IntOf(s, i, j - 1) * 10 + DigitVal(s[j])

\* the first four decimals of s[i..j-1], as ten-thousandths
FracOf(s, i, j) ==
  LET d(k) == IF i + k < j THEN DigitVal(s[i + k]) ELSE 0
  IN d(0) * 1000 + d(1) * 100 + d(2) * 10 + d(3)

ParseNumber(s, i) ==
  LET neg == i <= Len(s) /\ s[i] = "-"
      st == IF neg THEN i + 1 ELSE i
      ie == DigitsEnd(s, st)
      hasFrac == ie <= Len(s) /\ s[ie] = "."
      fe == IF hasFrac THEN DigitsEnd(s, ie + 1) ELSE ie
      mag == IntOf(s, st, ie - 1) * Scale + (IF hasFrac THEN FracOf(s, ie + 1, fe) ELSE 0)
  IN IF ie = st \/ (hasFrac /\ fe = ie + 1) \/ (ie - st > 1 /\ s[st] = "0")
     THEN ParseFail
     ELSE ParseOk(Num(IF neg THEN 0 - mag ELSE mag), fe)

RECURSIVE ParseValue(_, _), ParseElems(_, _, _), ParseMembers(_, _, _)
ParseValue(s, i0) ==
  LET i == SkipWs(s, i0)
  IN IF i > Len(s) THEN ParseFail
     ELSE IF StartsWithAt(s, i, <<"n", "u", "l", "l">>) THEN ParseOk(Null, i + 4)
     ELSE IF StartsWithAt(s, i, <<"t", "r", "u", "e">>) THEN ParseOk(Bool(TRUE), i + 4)
     ELSE IF StartsWithAt(s, i, <<"f", "a", "l", "s", "e">>) THEN ParseOk(Bool(FALSE), i + 5)
     ELSE IF s[i] = "\"" THEN ParseString(s, i)
     ELSE IF s[i] = "[" THEN
       LET j == SkipWs(s, i + 1)
       IN IF j <= Len(s) /\ s[j] = "]" THEN ParseOk(Arr(<<>>), j + 1)
          ELSE ParseElems(s, j, <<>>)
     ELSE IF s[i] = "{" THEN
       LET j == SkipWs(s, i + 1)
       IN IF j <= Len(s) /\ s[j] = "}" THEN ParseOk(EmptyObj, j + 1)
          ELSE ParseMembers(s, j, <<>>)
     ELSE ParseNumber(s, i)

\* elements of an array after "[" or ",": acc holds the elements so far
ParseElems(s, i, acc) ==
  LET r == ParseValue(s, i)
  IN IF ~r.ok THEN ParseFail
     ELSE LET j == SkipWs(s, r.pos)
          IN IF j > Len(s) THEN ParseFail
             ELSE IF s[j] = "," THEN ParseElems(s, j + 1, Append(acc, r.v))
             ELSE IF s[j] = "]" THEN ParseOk(Arr(Append(acc, r.v)), j + 1)
             ELSE ParseFail

\* members of an object after "{" or ",": a repeated key keeps the last value
ParseMembers(s, i0, acc) ==
  LET i == SkipWs(s, i0)
  IN IF i > Len(s) \/ s[i] # "\"" THEN ParseFail
     ELSE LET k == ParseString(s, i)
          IN IF ~k.ok THEN ParseFail
             ELSE LET c == SkipWs(s, k.pos)
                  IN IF c > Len(s) \/ s[c] # ":" THEN ParseFail
                     ELSE LET r == ParseValue(s, c + 1)
                          IN IF ~r.ok THEN ParseFail
                             ELSE LET j == SkipWs(s, r.pos)
                                      acc2 == (k.v.s :> r.v) @@ acc
                                  IN IF j > Len(s) THEN ParseFail
                                     ELSE IF s[j] = "," THEN ParseMembers(s, j + 1, acc2)
                                     ELSE IF s[j] = "}" THEN ParseOk(Obj(acc2), j + 1)
                                     ELSE ParseFail

\* JSON.parse(text): the whole text must be one value; a failure is the
\* SyntaxError the callers catch
JSONParse(text) ==
  LET r == ParseValue(text, 1)
  IN IF r.ok /\ SkipWs(text, r.pos) = Len(text) + 1
     THEN [ok |-> TRUE, v |-> r.v]
     ELSE ParseFail

\* ------------------------------------------------------------------------
\* String primitives
\* ------------------------------------------------------------------------
\* U+2022, the bullet of the label text: one character of the alphabet
BULLET == "U+2022"

LowerLetters == <<"a", "b", "c", "d", "e", "f", "g", "h", "i", "j", "k", "l", "m", "n", "o", "p", "q", "r", "s", "t", "u", "v", "w", "x", "y", "z">>
UpperLetters == <<"A", "B", "C", "D", "E", "F", "G", "H", "I", "J", "K", "L", "M", "N", "O", "P", "Q", "R", "S", "T", "U", "V", "W", "X", "Y", "Z">>
IsLowerLetter(c) == \E k \in 1..26 : LowerLetters[k] = c

\* String.prototype.toLowerCase
ToLowerChar(c) ==
  IF \E k \in 1..26 : UpperLetters[k] = c THEN LowerLetters[CHOOSE k \in 1..26 : UpperLetters[k] = c] ELSE c
ToLowerCase(s) == IF s = <<>> THEN <<>> ELSE [k \in 1..Len(s) |-> ToLowerChar(s[k])]

\* String.prototype.trim
RECURSIVE TrimStart(_), TrimEnd(_)
TrimStart(s) == IF s # <<>> /\ IsWs(Head(s)) THEN TrimStart(Tail(s)) ELSE s
TrimEnd(s) == IF s # <<>> /\ IsWs(s[Len(s)]) THEN TrimEnd(SubSeq(s, 1, Len(s) - 1)) ELSE s
Trim(s) == TrimEnd(TrimStart(s))

\* String.prototype.split on a character class: the pieces between the
\* separators, empty pieces included (always at least one piece)
RECURSIVE SplitOn(_, _, _, _)
SplitOn(s, seps, cur, acc) ==
  IF s = <<>> THEN Append(acc, cur)
  ELSE IF Head(s) \in seps THEN SplitOn(Tail(s), seps, <<>>, Append(acc, cur))
  ELSE SplitOn(Tail(s), seps, Append(cur, Head(s)), acc)
Split(s, seps) == SplitOn(s, seps, <<>>, <<>>)

RECURSIVE FlatMap(_, _)
FlatMap(Op(_), seq) == IF seq = <<>> THEN <<>> ELSE Op(Head(seq)) \o FlatMap(Op, Tail(seq))

RECURSIVE Filter(_, _)
Filter(Test(_), seq) ==
  IF seq = <<>> THEN <<>>
  ELSE (IF Test(Head(seq)) THEN <<Head(seq)>> ELSE <<>>) \o Filter(Test, Tail(seq))

Range(seq) == {seq[k] : k \in 1..Len(seq)}

\* Array.from(new Set(seq)): the first occurrence of every element, in order
RECURSIVE Dedupe(_, _)
Dedupe(seq, acc) ==
  IF seq = <<>> THEN acc
  ELSE Dedupe(Tail(seq), IF Head(seq) \in Range(acc) THEN acc ELSE Append(acc, Head(seq)))
ArrayFromSet(seq) == Dedupe(seq, <<>>)

\* ------------------------------------------------------------------------
\* Number.prototype.toFixed(3) then parseFloat, on ten-thousandths.
\* toFixed rounds the exact binary value of the double: of the inputs that
\* end in 5 ten-thousandths, these are the ones whose double lies below the
\* decimal, which therefore round down.
\* ------------------------------------------------------------------------
HalfBelow ==
  {45, 55, 65, 75, 95, 115, 135, 155, 185, 195, 215, 225, 255, 265, 295,
   305, 355, 365, 375, 385, 435, 445, 455, 465, 515, 525, 535, 545, 595,
   605, 615, 705, 715, 725, 735, 745, 755, 765, 775, 865, 875, 885, 895,
   905, 915, 925, 935, 1025, 1035, 1045, 1055, 1065, 1075, 1085, 1175, 1185,
   1195, 1205, 1215, 1225, 1235, 1245, 1415, 1425, 1435, 1445, 1455, 1465,
   1475, 1485, 1495, 1505, 1515, 1525, 1535, 1545, 1555, 1725, 1735, 1745,
   1755, 1765, 1775, 1785, 1795, 1805, 1815, 1825, 1835, 1845, 1855, 1865,
   2035, 2045, 2055, 2065, 2075, 2085, 2095, 2105, 2115, 2125, 2135, 2145,
   2155, 2165, 2175, 2185, 2345, 2355, 2365, 2375, 2385, 2395, 2405, 2415,
   2425, 2435, 2445, 2455, 2465, 2475, 2485, 2495, 2815, 2825, 2835, 2845,
   2855, 2865, 2875, 2885, 2895, 2905, 2915, 2925, 2935, 2945, 2955, 2965,
   2975, 2985, 2995, 3005, 3015, 3025, 3035, 3045, 3055, 3065, 3075, 3085,
   3095, 3105, 3115, 3445, 3455, 3465, 3475, 3485, 3495, 3505, 3515, 3525,
   3535, 3545, 3555, 3565, 3575, 3585, 3595, 3605, 3615, 3625, 3635, 3645,
   3655, 3665, 3675, 3685, 3695, 3705, 3715, 3725, 3735, 3745, 4065, 4075,
   4085, 4095, 4105, 4115, 4125, 4135, 4145, 4155, 4165, 4175, 4185, 4195,
   4205, 4215, 4225, 4235, 4245, 4255, 4265, 4275, 4285, 4295, 4305, 4315,
   4325, 4335, 4345, 4355, 4365, 4695, 4705, 4715, 4725, 4735, 4745, 4755,
   4765, 4775, 4785, 4795, 4805, 4815, 4825, 4835, 4845, 4855, 4865, 4875,
   4885, 4895, 4905, 4915, 4925, 4935, 4945, 4955, 4965, 4975, 4985, 4995,
   5005, 5015, 5025, 5035, 5045, 5055, 5065, 5075, 5085, 5095, 5105, 5115,
   5125, 5135, 5145, 5155, 5165, 5175, 5185, 5195, 5205, 5215, 5225, 5235,
   5245, 5255, 5265, 5275, 5285, 5295, 5305, 5315, 5325, 5335, 5345, 5355,
   5365, 5375, 5385, 5395, 5405, 5415, 5425, 5435, 5445, 5455, 5465, 5475,
   5485, 5495, 5505, 5515, 5525, 5535, 5545, 5555, 5565, 5575, 5585, 5595,
   5605, 5615, 6255, 6265, 6275, 6285, 6295, 6305, 6315, 6325, 6335, 6345,
   6355, 6365, 6375, 6385, 6395, 6405, 6415, 6425, 6435, 6445, 6455, 6465,
   6475, 6485, 6495, 6505, 6515, 6525, 6535, 6545, 6555, 6565, 6575, 6585,
   6595, 6605, 6615, 6625, 6635, 6645, 6655, 6665, 6675, 6685, 6695, 6705,
   6715, 6725, 6735, 6745, 6755, 6765, 6775, 6785, 6795, 6805, 6815, 6825,
   6835, 6845, 6855, 6865, 7505, 7515, 7525, 7535, 7545, 7555, 7565, 7575,
   7585, 7595, 7605, 7615, 7625, 7635, 7645, 7655, 7665, 7675, 7685, 7695,
   7705, 7715, 7725, 7735, 7745, 7755, 7765, 7775, 7785, 7795, 7805, 7815,
   7825, 7835, 7845, 7855, 7865, 7875, 7885, 7895, 7905, 7915, 7925, 7935,
   7945, 7955, 7965, 7975, 7985, 7995, 8005, 8015, 8025, 8035, 8045, 8055,
   8065, 8075, 8085, 8095, 8105, 8115, 8755, 8765, 8775, 8785, 8795, 8805,
   8815, 8825, 8835, 8845, 8855, 8865, 8875, 8885, 8895, 8905, 8915, 8925,
   8935, 8945, 8955, 8965, 8975, 8985, 8995, 9005, 9015, 9025, 9035, 9045,
   9055, 9065, 9075, 9085, 9095, 9105, 9115, 9125, 9135, 9145, 9155, 9165,
   9175, 9185, 9195, 9205, 9215, 9225, 9235, 9245, 9255, 9265, 9275, 9285,
   9295, 9305, 9315, 9325, 9335, 9345, 9355, 9365}

ToFixed3(n) ==
  LET r == n % 10
  IN IF r < 5 \/ (r = 5 /\ n \in HalfBelow) THEN n - r ELSE n - r + 10

\* ------------------------------------------------------------------------
\* Property names and literals of the two clients, as character sequences
\* ------------------------------------------------------------------------
K ==
  [domain_guess |-> <<"d","o","m","a","i","n","_","g","u","e","s","s">>,
   ingredients |-> <<"i","n","g","r","e","d","i","e","n","t","s">>,
   sections |-> <<"s","e","c","t","i","o","n","s">>,
   confidence |-> <<"c","o","n","f","i","d","e","n","c","e">>,
   language |-> <<"l","a","n","g","u","a","g","e">>,
   warnings |-> <<"w","a","r","n","i","n","g","s">>,
   claims |-> <<"c","l","a","i","m","s">>,
   choices |-> <<"c","h","o","i","c","e","s">>,
   message |-> <<"m","e","s","s","a","g","e">>,
   content |-> <<"c","o","n","t","e","n","t">>,
   output_text |-> <<"o","u","t","p","u","t","_","t","e","x","t">>,
   text |-> <<"t","e","x","t">>,
   summary |-> <<"s","u","m","m","a","r","y">>,
   disclaimer |-> <<"d","i","s","c","l","a","i","m","e","r">>,
   items |-> <<"i","t","e","m","s">>,
   name |-> <<"n","a","m","e">>,
   function |-> <<"f","u","n","c","t","i","o","n">>,
   risk_level |-> <<"r","i","s","k","_","l","e","v","e","l">>,
   why |-> <<"w","h","y">>,
   certainty |-> <<"c","e","r","t","a","i","n","t","y">>,
   sources |-> <<"s","o","u","r","c","e","s">>,
   synonyms |-> <<"s","y","n","o","n","y","m","s">>,
   pattern |-> <<"p","a","t","t","e","r","n">>,
   applies_to |-> <<"a","p","p","l","i","e","s","_","t","o">>,
   image_url |-> <<"i","m","a","g","e","_","u","r","l">>,
   url |-> <<"u","r","l">>,
   id |-> <<"i","d">>,
   zero |-> <<"0">>]

S ==
  [food |-> <<"f","o","o","d">>,
   drug |-> <<"d","r","u","g">>,
   cosmetic |-> <<"c","o","s","m","e","t","i","c">>,
   mixed |-> <<"m","i","x","e","d">>,
   en |-> <<"e","n">>,
   trueLower |-> <<"t","r","u","e">>,
   trueUpper |-> <<"T","R","U","E">>,
   Green |-> <<"G","r","e","e","n">>,
   Yellow |-> <<"Y","e","l","l","o","w">>,
   Red |-> <<"R","e","d">>,
   Unknown |-> <<"U","n","k","n","o","w","n">>,
   model_a |-> <<"m","o","d","e","l","-","a">>,
   model_a_padded |-> <<" ","m","o","d","e","l","-","a"," ">>,
   model_b |-> <<"m","o","d","e","l","-","b">>,
   loneSurrogate |-> <<"U+D800">>]


MapSeq(Op(_), seq) == IF seq = <<>> THEN <<>> ELSE [k \in 1..Len(seq) |-> Op(seq[k])]

\* value?.[0]
OptIndex0(v) ==
  CASE v.t = "arr" -> IF v.a = <<>> THEN Undefined ELSE v.a[1]
    [] v.t = "str" -> IF v.s = <<>> THEN Undefined ELSE Str(<<v.s[1]>>)
    [] OTHER -> OptGet(v, K.zero)

\* ------------------------------------------------------------------------
\* agent/ocr.ts: the result normalizer of the extraction client
\* ------------------------------------------------------------------------
OCR_DEFAULT_RESULT ==
  [domain_guess |-> S.mixed, ingredients |-> <<>>, sections |-> <<>>,
   confidence |-> 0, language |-> S.en]

\* the first chunk exposing output_text or text, "" when there is none
RECURSIVE FirstChunkText(_)
FirstChunkText(chunks) ==
  IF chunks = <<>> THEN <<>>
  ELSE IF IsString(OptGet(Head(chunks), K.output_text)) THEN OptGet(Head(chunks), K.output_text).s
  ELSE IF IsString(OptGet(Head(chunks), K.text)) THEN OptGet(Head(chunks), K.text).s
  ELSE FirstChunkText(Tail(chunks))

extractMessageContent(payload) ==
  LET message == OptGet(OptIndex0(OptGet(payload, K.choices)), K.message)
      content == OptGet(message, K.content)
  IN IF ~Truthy(message) THEN <<>>
     ELSE IF IsString(content) THEN content.s
     ELSE IF IsArray(content) THEN FirstChunkText(content.a)
     ELSE <<>>

\* the fragments of one list entry; a non-string entry contributes none
EntrySplits(entry) ==
  IF ~IsString(entry) THEN <<>>
  ELSE Filter(LAMBDA x : Len(x) > 0,
              MapSeq(LAMBDA x : ToLowerCase(Trim(x)),
                     FlatMap(LAMBDA x : Split(x, {";", ","}),
                             Split(entry.s, {"\n", BULLET}))))

normalizeIngredients_noDedupe(raw) ==
  IF ~Truthy(raw) THEN <<>>
  ELSE LET items == IF IsArray(raw) THEN raw.a ELSE <<raw>>
       IN FlatMap(EntrySplits, items)
normalizeIngredients(raw) ==
  IF ~Truthy(raw) THEN <<>>
  ELSE LET items == IF IsArray(raw) THEN raw.a ELSE <<raw>>
       IN ArrayFromSet(FlatMap(EntrySplits, items))

\* sections is a function on a subset of {"warnings", "claims"}
normalizeSections(raw) ==
  IF ~Truthy(raw) \/ ~IsObjectLike(raw) THEN <<>>
  ELSE LET w == OptGet(raw, K.warnings)
           c == OptGet(raw, K.claims)
           claims == IF IsArray(c) THEN MapSeq(LAMBDA x : Trim(x.s),
                                                      Filter(LAMBDA x : IsString(x) /\ Len(Trim(x.s)) > 0, c.a)) ELSE <<>>
           hasW == IsString(w) /\ Trim(w.s) # <<>>
           hasC == Len(claims) > 0
       IN CASE hasW /\ hasC -> [k \in {"warnings", "claims"} |->
                                  IF k = "warnings" THEN Trim(w.s) ELSE claims]
            [] hasW /\ ~hasC -> [k \in {"warnings"} |-> Trim(w.s)]
            [] ~hasW /\ hasC -> [k \in {"claims"} |-> claims]
            [] OTHER -> <<>>

normalizeDomain(domain) ==
  IF IsString(domain) /\ domain.s \in {S.food, S.drug, S.cosmetic, S.mixed}
  THEN domain.s
  ELSE S.mixed

normalizeConfidence(value) ==
  IF value.t # "num" THEN 0
  ELSE IF value.n < 0 THEN 0
  ELSE IF value.n > Scale THEN Scale
  ELSE ToFixed3(value.n)

IsLowerAlnum(c) == IsLowerLetter(c) \/ IsDigit(c)
AllChars(Test(_), s) == \A k \in 1..Len(s) : Test(s[k])

\* /^[a-z]{2,3}(?:-[a-z0-9]{2,8})*$/
IsLanguageTag(s) ==
  LET parts == Split(s, {"-"})
  IN /\ Len(parts[1]) \in 2..3
     /\ AllChars(IsLowerLetter, parts[1])
     /\ \A k \in 2..Len(parts) : Len(parts[k]) \in 2..8 /\ AllChars(IsLowerAlnum, parts[k])

normalizeLanguage(value) ==
  IF ~IsString(value) THEN S.en
  ELSE LET trimmed == Trim(value.s)
           lower == ToLowerCase(trimmed)
       IN IF trimmed = <<>> THEN S.en
          ELSE IF IsLanguageTag(lower) THEN lower ELSE S.en

Min(a, b) == IF a < b THEN a ELSE b

NormalizeOCR_scaledCap(raw) ==
  LET result == [domain_guess |-> normalizeDomain(OptGet(raw, K.domain_guess)),
                 ingredients |-> normalizeIngredients(OptGet(raw, K.ingredients)),
                 sections |-> normalizeSections(OptGet(raw, K.sections)),
                 confidence |-> normalizeConfidence(OptGet(raw, K.confidence)),
                 language |-> normalizeLanguage(OptGet(raw, K.language))]
  IN IF Len(result.ingredients) = 0
     THEN [result EXCEPT !.confidence = (result.confidence * 2000) \div Scale]
     ELSE result

NormalizeOCR_noCap(raw) ==
  [domain_guess |-> normalizeDomain(OptGet(raw, K.domain_guess)),
   ingredients |-> normalizeIngredients(OptGet(raw, K.ingredients)),
   sections |-> normalizeSections(OptGet(raw, K.sections)),
   confidence |-> normalizeConfidence(OptGet(raw, K.confidence)),
   language |-> normalizeLanguage(OptGet(raw, K.language))]

\* analyzeLabel lines 512-524: the five normalized fields, then the cap of
\* the confidence at 0.2 when no ingredient was found
NormalizeOCR(raw) ==
  LET result == [domain_guess |-> normalizeDomain(OptGet(raw, K.domain_guess)),
                 ingredients |-> normalizeIngredients(OptGet(raw, K.ingredients)),
                 sections |-> normalizeSections(OptGet(raw, K.sections)),
                 confidence |-> normalizeConfidence(OptGet(raw, K.confidence)),
                 language |-> normalizeLanguage(OptGet(raw, K.language))]
  IN IF Len(result.ingredients) = 0
     THEN [result EXCEPT !.confidence = Min(result.confidence, 2000)]
     ELSE result

\* analyzeLabel lines 501-524: from the response envelope to the result
OCRResultOf(payload) ==
  LET content == extractMessageContent(payload)
      parsed == JSONParse(content)
  IN IF content = <<>> THEN OCR_DEFAULT_RESULT
     ELSE IF ~parsed.ok THEN OCR_DEFAULT_RESULT
     ELSE NormalizeOCR(parsed.v)

\* ------------------------------------------------------------------------
\* The provider: responses to POST {apiBase}/chat/completions
\* ------------------------------------------------------------------------
\* response.ok of the fetch API
Ok(r) == r.status \in 200..299

\* a failure carries the text of its body, a success the envelope that
\* response.json() yields.  The provider is the HTTP JSON API of the
\* contract: every response arrives and every OK body is JSON, so fetch,
\* response.text() and response.json() do not reject.
FailedResponse(status, errText) == [status |-> status, errText |-> errText, payload |-> Undefined]
OkResponse(payload) == [status |-> 200, errText |-> "", payload |-> payload]
NoResponse == [status |-> 0, errText |-> "", payload |-> Undefined]

Failures ==
  {FailedResponse(st, b) : st \in {400, 422, 500}, b \in {"schema rejected", "unavailable"}}

\* {"choices":[{"message":{"content": content}}]}
Envelope(content) ==
  Obj(K.choices :> Arr(<<Obj(K.message :> Obj(K.content :> content))>>))

\* texts a model may answer an extraction request with
OCRTexts ==
  { <<>>,
    <<"S","o","r","r","y",","," ","n","o"," ","l","a","b","e","l">>,
    <<"n","u","l","l">>,
    <<"[","1","]">>,
    <<"\"","f","o","o","d","\"">>,
    <<"7">>,
    <<"{","}">>,
    <<"{","\"","i","n","g","r","e","d","i","e","n","t","s","\"",":","[","]",",","\"","c","o","n","f","i","d","e","n","c","e","\"",":","0",".","9","5","}">>,
    <<"{","\"","d","o","m","a","i","n","_","g","u","e","s","s","\"",":","\"","f","o","o","d","\"",",","\"","i","n","g","r","e","d","i","e","n","t","s","\"",":","\"","W","a","t","e","r",","," ","S","u","g","a","r","\\","n","S","u","g","a","r","\"",",","\"","s","e","c","t","i","o","n","s","\"",":","{","\"","w","a","r","n","i","n","g","s","\"",":","\""," ","h","o","t"," ","\"","}",",","\"","c","o","n","f","i","d","e","n","c","e","\"",":","0",".","8","1","2","5",",","\"","l","a","n","g","u","a","g","e","\"",":","\"","E","N","-","u","s","\"","}">> }

OCRPayloads ==
  {Null, EmptyObj, Obj(K.choices :> Str(<<"x">>))}
    \cup {Envelope(Str(txt)) : txt \in OCRTexts}
    \cup {Envelope(Arr(<<Null, Obj(K.text :> Str(<<"{","\"","i","n","g","r","e","d","i","e","n","t","s","\"",":","[","\"","A","q","u","a","\"","]","}">>))>>))}

\* ------------------------------------------------------------------------
\* process.env
\* ------------------------------------------------------------------------
DEFAULT_MODEL == <<"i","n","t","e","r","f","a","z","e","-","b","e","t","a">>

\* credential, NODE_ENV, WEB_FETCH_ENABLED, OFF_FETCH_LIMIT
Deployments ==
  { [key |-> "", node |-> "development", fetch |-> <<>>, limit |-> <<>>],
    [key |-> "", node |-> "production", fetch |-> S.trueLower, limit |-> <<>>],
    [key |-> "sk-live", node |-> "development", fetch |-> <<>>, limit |-> <<>>],
    [key |-> "sk-live", node |-> "production", fetch |-> <<>>, limit |-> <<>>],
    [key |-> "sk-live", node |-> "production", fetch |-> S.trueUpper, limit |-> <<>>],
    [key |-> "sk-live", node |-> "production", fetch |-> S.trueLower, limit |-> <<"1">>] }

\* an unset variable reads as the empty string, like `process.env.X || ""`
Envs ==
  { [INTERFAZE_API_KEY |-> d.key, NODE_ENV |-> d.node,
     WEB_FETCH_ENABLED |-> d.fetch, OFF_FETCH_LIMIT |-> d.limit,
     INTERFAZE_EXPLAIN_MODEL |-> em, INTERFAZE_OCR_MODEL |-> om] :
      d \in Deployments,
      em \in {<<>>, DEFAULT_MODEL, S.model_a, S.model_a_padded},
      om \in {<<>>, DEFAULT_MODEL, S.model_a, S.model_b} }

\* ------------------------------------------------------------------------
\* Inputs of the two clients
\* ------------------------------------------------------------------------
\* arguments a caller may hand to analyzeLabel
ImageUrls ==
  { Str(<<"h","t","t","p","s",":","/","/","x","/","l","a","b","e","l",".","p","n","g">>),
    Str(<<"d","a","t","a",":","i","m","a","g","e","/","p","n","g",";","b","a","s","e","6","4",",","A","A","A","A">>),
    Str(<<>>), Undefined, Null, Num(0), Num(7 * Scale), EmptyObj }

\* Extraction Results a caller may hand to explainIngredients
OCRInputs ==
  { OCR_DEFAULT_RESULT,
    [domain_guess |-> S.food, ingredients |-> <<<<"w","a","t","e","r">>, <<"s","u","g","a","r">>>>,
     sections |-> <<>>, confidence |-> 9000, language |-> S.en],
    [domain_guess |-> S.cosmetic, ingredients |-> <<<<"a","q","u","a">>>>,
     sections |-> <<>>, confidence |-> 8130, language |-> S.en] }

\* ------------------------------------------------------------------------
\* Errors and outcomes of a call
\* ------------------------------------------------------------------------
Pending == [kind |-> "pending"]
Returned(value) == [kind |-> "returned", value |-> value]
Thrown(error) == [kind |-> "thrown", error |-> error]

\* new Error("analyzeLabel: image_url is required")
InvalidInputError ==
  [name |-> "Error", message |-> "analyzeLabel: image_url is required",
   status |-> 0, errText |-> ""]
\* new Error(`${fn}: Interfaze API error ${status}: ${errText}`)
ApiError(fn, status, errText) ==
  [name |-> "Error", message |-> fn, status |-> status, errText |-> errText]
\* reading a property of null
TypeError ==
  [name |-> "TypeError", message |-> "Cannot read properties of null",
   status |-> 0, errText |-> ""]

VARIABLES
  env,            \* process.env
  files,          \* the two documents of mcp/file-server on disk
  op,             \* the function that was called
  image_url,      \* argument of analyzeLabel
  data,           \* argument of explainIngredients
  pc,             \* the await the call is suspended at
  requests,       \* requests sent to the provider, in order
  received,       \* responses received from the provider, in order
  response,       \* the local `response`
  outcome,        \* pending, returned value or thrown error of the call
  pendingReads,   \* explainIngredients: document reads not yet settled
  fsReads,        \* documents handed to fs.readFile, in order
  glossary,       \* explainIngredients: const glossary
  rules,          \* explainIngredients: const rules
  index,          \* fetchExternalRecords: loop index
  lookups,        \* network calls made by fetch_json, in order
  records,        \* fetchExternalRecords: records
  settled,        \* how the network calls of the lookups ended, in order
  candidate,      \* explainIngredients: position in modelsToTry
  lastStatus,     \* explainIngredients: let lastStatus
  lastErrorText,  \* explainIngredients: let lastErrorText
  url,            \* argument of fetch_json
  now,            \* milliseconds since fetch_json was called
  timeout,        \* fetch_json: const timeout, the timer of setTimeout
  controller,     \* fetch_json: const controller
  arg,            \* argument of the normalizer, request of the route
  heap,           \* the arrays and objects of the process, by reference
  results         \* results returned to callers so far, holding references

\* state of fetch_json, of a normalizer call and of the heap
toolVars == <<url, now, timeout, controller, arg, heap, results>>

\* state of the two clients that fetch_json and the normalizers never touch
clientVars ==
  <<env, files, image_url, data, requests, received, pendingReads, fsReads,
    glossary, rules, index, records, settled, candidate, lastStatus, lastErrorText>>

vars ==
  <<env, files, op, image_url, data, pc, requests, received, response, outcome,
    pendingReads, fsReads, glossary, rules, index, lookups, records, settled,
    candidate, lastStatus, lastErrorText, toolVars>>

explainVars ==
  <<pendingReads, fsReads, glossary, rules, index, lookups, records, settled,
    candidate, lastStatus, lastErrorText>>

\* ------------------------------------------------------------------------
\* agent/ocr.ts: analyzeLabel
\* ------------------------------------------------------------------------
\* !image_url || typeof image_url !== "string"
InvalidImage_typeOnly(v) == ~IsString(v)
InvalidImage(v) == ~Truthy(v) \/ ~IsString(v)

\* !apiKey
OcrKeyMissing_never(e) == FALSE
OcrKeyMissing(e) == e.INTERFAZE_API_KEY = ""

\* process.env.INTERFAZE_OCR_MODEL || "interfaze-beta"
OcrModel(e) == IF e.INTERFAZE_OCR_MODEL = <<>> THEN DEFAULT_MODEL ELSE e.INTERFAZE_OCR_MODEL

OcrRequest(e, image, format) ==
  [fn |-> "analyzeLabel", model |-> OcrModel(e), format |-> format, input |-> image]

\* !response.ok && (response.status === 400 || response.status === 422)
ShouldFallback_anyFailure(r) == ~Ok(r)
ShouldFallback(r) == ~Ok(r) /\ (r.status = 400 \/ r.status = 422)

\* the error of lines 486-489
AnalyzeError_noBody(r) == ApiError("analyzeLabel", r.status, "")
AnalyzeError(r) == ApiError("analyzeLabel", r.status, r.errText)

\* raw?.domain_guess ... raw?.language: optional chaining reads undefined
\* from a null raw instead of throwing
OcrFieldReadThrows_plain(raw) == GetThrows(raw)
OcrFieldReadThrows(raw) == FALSE

\* lines 486-524: what the call ends with once `response` is final
AnalyzeOutcome(r) ==
  IF ~Ok(r) THEN Thrown(AnalyzeError(r))
  ELSE LET content == extractMessageContent(r.payload)
           parsed == JSONParse(content)
       IN IF content # <<>> /\ parsed.ok /\ OcrFieldReadThrows(parsed.v)
          THEN Thrown(TypeError)
          ELSE Returned(OCRResultOf(r.payload))

OCRResponses == Failures \cup {OkResponse(p) : p \in OCRPayloads}

\* lines 371-469: the input check, the no-credential short-circuit, and the
\* schema-constrained request
AnalyzeStart ==
  /\ op = "analyzeLabel"
  /\ pc = "start"
  /\ IF InvalidImage(image_url)
     THEN /\ outcome' = Thrown(InvalidInputError)
          /\ pc' = "done"
          /\ UNCHANGED requests
     ELSE IF OcrKeyMissing(env)
     THEN /\ outcome' = Returned(OCR_DEFAULT_RESULT)
          /\ pc' = "done"
          /\ UNCHANGED requests
     ELSE /\ requests' = Append(requests, OcrRequest(env, image_url.s, "json_schema"))
          /\ pc' = "first"
          /\ UNCHANGED outcome
  /\ UNCHANGED <<env, files, op, image_url, data, received, response, explainVars, toolVars>>

\* lines 471-524: the first response arrives
AnalyzeFirstResponse ==
  /\ op = "analyzeLabel"
  /\ pc = "first"
  /\ \E r \in OCRResponses :
       /\ received' = Append(received, r)
       /\ response' = r
       /\ IF ShouldFallback(r)
          THEN /\ requests' = Append(requests, OcrRequest(env, image_url.s, "json_object"))
               /\ pc' = "retry"
               /\ UNCHANGED outcome
          ELSE /\ outcome' = AnalyzeOutcome(r)
               /\ pc' = "done"
               /\ UNCHANGED requests
  /\ UNCHANGED <<env, files, op, image_url, data, explainVars, toolVars>>

\* lines 476-524: the response to the json_object retry arrives
AnalyzeRetryResponse ==
  /\ op = "analyzeLabel"
  /\ pc = "retry"
  /\ \E r \in OCRResponses :
       /\ received' = Append(received, r)
       /\ response' = r
       /\ outcome' = AnalyzeOutcome(r)
       /\ pc' = "done"
  /\ UNCHANGED <<env, files, op, image_url, data, requests, explainVars, toolVars>>

\* ------------------------------------------------------------------------
\* agent/explain.ts: the result normalizer of the explanation client
\* ------------------------------------------------------------------------
DEFAULT_SUMMARY ==
  <<"I","n","g","r","e","d","i","e","n","t"," ","e","x","p","l","a","n","a","t","i","o","n","s"," ","u","n","a","v","a","i","l","a","b","l","e"," ","w","h","i","l","e"," ","t","h","e"," ","l","a","n","g","u","a","g","e"," ","s","e","r","v","i","c","e"," ","i","s"," ","o","f","f","l","i","n","e",".">>
DEFAULT_DISCLAIMER == <<"T","h","i","s"," ","i","s"," ","n","o","t"," ","m","e","d","i","c","a","l"," ","a","d","v","i","c","e",".">>

EXPLAIN_DEFAULT_RESULT ==
  [summary |-> DEFAULT_SUMMARY, items |-> <<>>, disclaimer |-> DEFAULT_DISCLAIMER]

normalizeRiskLevel(value) ==
  IF IsString(value) /\ value.s \in {S.Green, S.Yellow, S.Red, S.Unknown}
  THEN value.s
  ELSE S.Unknown

normalizeCertainty_noClamp(value) ==
  IF value.t # "num" THEN 0 ELSE ToFixed3(value.n)
normalizeCertainty(value) ==
  IF value.t # "num" THEN 0
  ELSE IF value.n < 0 THEN 0
  ELSE IF value.n > Scale THEN Scale
  ELSE ToFixed3(value.n)

ItemOf(item) ==
  LET name == OptGet(item, K.name)
      fn == OptGet(item, K.function)
      why == OptGet(item, K.why)
      sources == OptGet(item, K.sources)
  IN [name |-> IF IsString(name) THEN name.s ELSE S.Unknown,
      function |-> IF IsString(fn) THEN fn.s ELSE <<>>,
      risk_level |-> normalizeRiskLevel(OptGet(item, K.risk_level)),
      why |-> IF IsString(why) THEN why.s ELSE <<>>,
      certainty |-> normalizeCertainty(OptGet(item, K.certainty)),
      sources |-> IF IsArray(sources)
                  THEN MapSeq(LAMBDA x : x.s,
                              Filter(LAMBDA x : IsString(x) /\ Len(Trim(x.s)) > 0, sources.a))
                  ELSE <<>>]

normalizeItems_keepAll(raw) ==
  IF ~IsArray(raw) THEN <<>> ELSE MapSeq(ItemOf, raw.a)
\* an entry is kept when `entry && typeof entry === "object"`
normalizeItems(raw) ==
  IF ~IsArray(raw) THEN <<>>
  ELSE MapSeq(ItemOf, Filter(LAMBDA x : Truthy(x) /\ IsObjectLike(x), raw.a))

\* lines 342-360: the text of the first choice
ExplainMessageContent(payload) ==
  LET message == OptGet(OptIndex0(OptGet(payload, K.choices)), K.message)
      content == OptGet(message, K.content)
  IN IF ~Truthy(message) THEN <<>>
     ELSE IF IsString(content) THEN content.s
     ELSE IF IsArray(content) THEN FirstChunkText(content.a)
     ELSE <<>>

\* lines 374-383
ExplainResultOf(rawResult) ==
  LET summary == OptGet(rawResult, K.summary)
      disclaimer == OptGet(rawResult, K.disclaimer)
  IN [summary |-> IF IsString(summary) THEN summary.s ELSE DEFAULT_SUMMARY,
      items |-> normalizeItems(OptGet(rawResult, K.items)),
      disclaimer |-> IF IsString(disclaimer) THEN disclaimer.s ELSE DEFAULT_DISCLAIMER]

\* line 336, payload.usage, and line 374, rawResult.summary: property reads
\* without optional chaining
UsageReadThrows(payload, e) == e.NODE_ENV # "production" /\ GetThrows(payload)
SummaryReadThrows(rawResult) == GetThrows(rawResult)

\* lines 321-383: what the call ends with once a candidate answered OK
ExplainSuccessOutcome(payload, e) ==
  IF UsageReadThrows(payload, e) THEN Thrown(TypeError)
  ELSE LET content == ExplainMessageContent(payload)
           parsed == JSONParse(content)
       IN IF content = <<>> THEN Returned(EXPLAIN_DEFAULT_RESULT)
          ELSE IF ~parsed.ok THEN Returned(EXPLAIN_DEFAULT_RESULT)
          ELSE IF SummaryReadThrows(parsed.v) THEN Thrown(TypeError)
          ELSE Returned(ExplainResultOf(parsed.v))

\* texts a model may answer an explanation request with
ExplainTexts ==
  { <<>>,
    <<"I"," ","c","a","n","n","o","t"," ","h","e","l","p">>,
    <<"n","u","l","l">>,
    <<"[","]">>,
    <<"\"","f","i","n","e","\"">>,
    <<"7">>,
    <<"{","}">>,
    <<"{","\"","s","u","m","m","a","r","y","\"",":","\"","\"",",","\"","i","t","e","m","s","\"",":","[","{","\"","n","a","m","e","\"",":","\"","W","a","t","e","r","\"",",","\"","r","i","s","k","_","l","e","v","e","l","\"",":","\"","S","a","f","e","\"",",","\"","c","e","r","t","a","i","n","t","y","\"",":","1",".","5","}",",","7","]",",","\"","d","i","s","c","l","a","i","m","e","r","\"",":","\"","\"","}">>,
    <<"{","\"","s","u","m","m","a","r","y","\"",":","\"","M","o","s","t","l","y"," ","f","i","n","e","\"",",","\"","i","t","e","m","s","\"",":","[","{","\"","n","a","m","e","\"",":","\"","S","u","g","a","r","\"",",","\"","f","u","n","c","t","i","o","n","\"",":","\"","s","w","e","e","t","e","n","e","r","\"",",","\"","r","i","s","k","_","l","e","v","e","l","\"",":","\"","Y","e","l","l","o","w","\"",",","\"","w","h","y","\"",":","\"","m","o","d","e","r","a","t","i","o","n","\"",",","\"","c","e","r","t","a","i","n","t","y","\"",":","0",".","8","1","2","5",",","\"","s","o","u","r","c","e","s","\"",":","[","\"","k","b",":","s","u","g","a","r","\"",",","\""," ","\"","]","}","]",",","\"","d","i","s","c","l","a","i","m","e","r","\"",":","\"","N","o","t"," ","a","d","v","i","c","e","\"","}">> }

ExplainPayloads ==
  {Null, EmptyObj}
    \cup {Envelope(Str(txt)) : txt \in ExplainTexts}
    \cup {Envelope(Arr(<<Obj(K.output_text :> Str(<<"{","\"","s","u","m","m","a","r","y","\"",":","\"","F","r","o","m"," ","c","h","u","n","k","\"","}">>))>>))}

ExplainResponses == Failures \cup {OkResponse(p) : p \in ExplainPayloads}

\* ------------------------------------------------------------------------
\* agent/explain.ts: the local documents and the external lookups
\* ------------------------------------------------------------------------
GLOSSARY_FILE == "mini_glossary.json"
RULES_FILE == "risk_rules.json"
DocFiles == {GLOSSARY_FILE, RULES_FILE}

MissingFile == [exists |-> FALSE, text |-> <<>>]
FileWith(text) == [exists |-> TRUE, text |-> text]
CorruptText == <<"[","{","\"","n","a","m","e","\"",":">>
GlossaryText == <<"[","{","\"","n","a","m","e","\"",":","\"","W","a","t","e","r","\"",",","\"","s","y","n","o","n","y","m","s","\"",":","[","\"","a","q","u","a","\"","]","}","]">>
RulesText == <<"[","{","\"","p","a","t","t","e","r","n","\"",":","\"","s","u","g","a","r","\"",",","\"","r","i","s","k","_","l","e","v","e","l","\"",":","\"","Y","e","l","l","o","w","\"",",","\"","r","e","a","s","o","n","\"",":","\"","a","d","d","e","d"," ","s","u","g","a","r","\"",",","\"","a","p","p","l","i","e","s","_","t","o","\"",":","[","\"","g","l","u","c","o","s","e","\"","]","}","]">>

\* a document that is missing or unreadable, one that is cut off, the
\* document of the repository, and one that is JSON but no list
FileStates(f) ==
  {MissingFile, FileWith(CorruptText),
   FileWith(IF f = GLOSSARY_FILE THEN GlossaryText ELSE RulesText),
   FileWith(IF f = GLOSSARY_FILE THEN <<"n","u","l","l">>
            ELSE <<"{","\"","r","u","l","e","s","\"",":","[","]","}">>)}

\* readJsonFile: a failed read and a failed parse both give the fallback
readJsonFile_missingOnly(file, fallback) ==
  IF ~file.exists THEN fallback
  ELSE LET parsed == JSONParse(file.text)
       IN IF parsed.ok THEN parsed.v ELSE Undefined
readJsonFile(file, fallback) ==
  IF ~file.exists THEN fallback
  ELSE LET parsed == JSONParse(file.text)
       IN IF parsed.ok THEN parsed.v ELSE fallback

\* value.some((x) => x.toLowerCase() === needle) on the value of `synonyms`
\* or `applies_to`: "yes", "no", or "throws" when the value is no list or an
\* element that is no string is reached before a match
SomeOf(value, needle) ==
  IF ~IsArray(value) THEN "throws"
  ELSE LET stop == {k \in 1..Len(value.a) :
                      ~IsString(value.a[k]) \/ ToLowerCase(value.a[k].s) = needle}
       IN IF stop = {} THEN "no"
          ELSE IF IsString(value.a[CHOOSE k \in stop : \A j \in stop : k <= j]) THEN "yes"
          ELSE "throws"

\* lines 73-78, the callback of glossary.find: the name, then the synonyms
EntryMatches_nameOnly(item, needle) ==
  IF GetThrows(item) \/ ~IsString(OptGet(item, K.name)) THEN "throws"
  ELSE IF ToLowerCase(OptGet(item, K.name).s) = needle THEN "yes"
  ELSE "no"
EntryMatches(item, needle) ==
  IF GetThrows(item) \/ ~IsString(OptGet(item, K.name)) THEN "throws"
  ELSE IF ToLowerCase(OptGet(item, K.name).s) = needle THEN "yes"
  ELSE IF ~Truthy(OptGet(item, K.synonyms)) THEN "no"
  ELSE SomeOf(OptGet(item, K.synonyms), needle)

\* lines 93-98, the callback of rules.filter: applies_to, then the pattern
RuleHits_patternOnly(rule, lower) ==
  IF GetThrows(rule) THEN "throws"
  ELSE IF ~IsString(OptGet(rule, K.pattern)) THEN "throws"
  ELSE IF \E k \in 1..(Len(lower) + 1) :
            StartsWithAt(lower, k, ToLowerCase(OptGet(rule, K.pattern).s))
       THEN "yes" ELSE "no"
RuleHits(rule, lower) ==
  IF GetThrows(rule) THEN "throws"
  ELSE LET applies == IF Truthy(OptGet(rule, K.applies_to))
                      THEN SomeOf(OptGet(rule, K.applies_to), lower) ELSE "no"
       IN IF applies # "no" THEN applies
          ELSE IF ~IsString(OptGet(rule, K.pattern)) THEN "throws"
          ELSE IF \E k \in 1..(Len(lower) + 1) :
                    StartsWithAt(lower, k, ToLowerCase(OptGet(rule, K.pattern).s))
               THEN "yes" ELSE "no"

\* lines 68-86: [ok |-> FALSE] is the TypeError of a glossary without find
\* or of an ill-formed entry, v the Record<string, GlossaryEntry>.
\* glossary.find stops at the first entry that matches, so an ill-formed
\* entry behind it is not read
matchGlossaryEntries(ingredients, glossaryList) ==
  LET Find(ingredient) ==
        LET tests == MapSeq(LAMBDA item : EntryMatches(item, ToLowerCase(ingredient)), glossaryList.a)
            hit == {k \in 1..Len(tests) : tests[k] # "no"}
        IN IF hit = {} THEN [kind |-> "no"]
           ELSE [kind |-> tests[CHOOSE k \in hit : \A j \in hit : k <= j],
                 entry |-> glossaryList.a[CHOOSE k \in hit : \A j \in hit : k <= j]]
  IN IF ingredients = <<>> THEN [ok |-> TRUE, v |-> <<>>]
     ELSE IF ~IsArray(glossaryList) THEN [ok |-> FALSE, v |-> <<>>]
     ELSE IF \E i \in Range(ingredients) : Find(i).kind = "throws" THEN [ok |-> FALSE, v |-> <<>>]
     ELSE [ok |-> TRUE,
           v |-> [i \in {x \in Range(ingredients) : Find(x).kind = "yes"} |-> Find(i).entry]]

\* lines 88-106: [ok |-> FALSE] is the TypeError of rules without filter or
\* of an ill-formed rule, v the Record<string, RiskRule[]>.  rules.filter
\* reads every rule
applyRiskRules(ingredients, ruleList) ==
  LET Tests(ingredient) == MapSeq(LAMBDA rule : RuleHits(rule, ToLowerCase(ingredient)), ruleList.a)
      Hits(ingredient) == Filter(LAMBDA rule : RuleHits(rule, ToLowerCase(ingredient)) = "yes", ruleList.a)
  IN IF ingredients = <<>> THEN [ok |-> TRUE, v |-> <<>>]
     ELSE IF ~IsArray(ruleList) THEN [ok |-> FALSE, v |-> <<>>]
     ELSE IF \E i \in Range(ingredients) : "throws" \in Range(Tests(i)) THEN [ok |-> FALSE, v |-> <<>>]
     ELSE [ok |-> TRUE,
           v |-> [i \in {x \in Range(ingredients) : Len(Hits(x)) > 0} |-> Hits(i)]]

\* (process.env.WEB_FETCH_ENABLED || "").toLowerCase() === "true"
shouldFetchExternally(e) == ToLowerCase(e.WEB_FETCH_ENABLED) = S.trueLower

\* Number(text) for the decimal texts of the configuration
JSNumber(text) ==
  LET t == Trim(text)
      r == ParseNumber(t, 1)
  IN IF t = <<>> THEN Num(0)
     ELSE IF r.ok /\ r.pos = Len(t) + 1 THEN r.v
     ELSE NaN

\* Math.min(ingredients.length, Number(process.env.OFF_FETCH_LIMIT || 3))
FetchLimit_countOnly(ingredients, e) == Num(Len(ingredients) * Scale)
FetchLimit(ingredients, e) ==
  LET cap == IF e.OFF_FETCH_LIMIT = <<>> THEN Num(3 * Scale) ELSE JSNumber(e.OFF_FETCH_LIMIT)
  IN IF cap.t = "nan" THEN NaN ELSE Num(Min(Len(ingredients) * Scale, cap.n))

\* index < limit
IndexBelow(i, limit) == limit.t = "num" /\ i * Scale < limit.n

HOST_BEAUTY == <<"w","o","r","l","d",".","o","p","e","n","b","e","a","u","t","y","f","a","c","t","s",".","o","r","g">>
HOST_FOOD == <<"w","o","r","l","d",".","o","p","e","n","f","o","o","d","f","a","c","t","s",".","o","r","g">>
WHITELIST == <<<<"o","p","e","n","f","o","o","d","f","a","c","t","s",".","o","r","g">>, <<"o","p","e","n","b","e","a","u","t","y","f","a","c","t","s",".","o","r","g">>>>

EndsWith(s, suffix) ==
  Len(suffix) <= Len(s) /\ SubSeq(s, Len(s) - Len(suffix) + 1, Len(s)) = suffix

\* new URL(href) of the WHATWG URL standard, for the hostname: spaces around
\* the text are stripped; the scheme is a letter followed by letters, digits,
\* "+", "-" or "." and ends at the first ":"; after a special scheme the
\* authority starts behind any run of slashes, after another scheme only
\* behind "//"; it ends before the first "/", "?" or "#"; credentials end at
\* its last "@" and the port starts at the ":" behind the host; the host of a
\* special scheme is lowercased and must not be empty.  A text without a
\* scheme, or with an invalid host or port, throws (ok is FALSE).  IPv6
\* literals, percent-decoding and IDNA mapping are left out.  Bind evaluates
\* a part once and names it.
ParseURL(href) ==
  LET Bind(e, Body(_)) == CHOOSE r \in {Body(x) : x \in {e}} : TRUE
      First(t, cs) == IF \E k \in 1..Len(t) : t[k] \in cs
                      THEN CHOOSE k \in 1..Len(t) : t[k] \in cs /\ \A j \in 1..(k - 1) : t[j] \notin cs
                      ELSE Len(t) + 1
      Last(t, c) == IF \E k \in 1..Len(t) : t[k] = c
                    THEN CHOOSE k \in 1..Len(t) : t[k] = c /\ \A j \in (k + 1)..Len(t) : t[j] # c
                    ELSE 0
      IsLetter(c) == c \in Range(LowerLetters) \cup Range(UpperLetters)
      Throws == [ok |-> FALSE, hostname |-> <<>>]
      Special == {<<"h","t","t","p">>, <<"h","t","t","p","s">>, <<"w","s">>, <<"w","s","s">>, <<"f","t","p">>}
      HostOf(special, hostport) ==
        Bind(SubSeq(hostport, 1, First(hostport, {":"}) - 1), LAMBDA host :
          IF /\ \A k \in 1..Len(host) : host[k] \notin {" ", "<", ">", "[", "]", "^", "|", "%", "\t", "\n"}
             /\ \A k \in (Len(host) + 2)..Len(hostport) : IsDigit(hostport[k])
             /\ special => host # <<>>
          THEN [ok |-> TRUE, hostname |-> IF special THEN ToLowerCase(host) ELSE host]
          ELSE Throws)
      AuthorityOf(special, tail) ==
        Bind(SubSeq(tail, 1, First(tail, IF special THEN {"/", "?", "#", "\\"} ELSE {"/", "?", "#"}) - 1),
             LAMBDA authority :
               Bind(SubSeq(authority, Last(authority, "@") + 1, Len(authority)),
                    LAMBDA hostport : HostOf(special, hostport)))
      AfterScheme(special, rest) ==
        Bind(IF special THEN First(rest, Range(rest) \ {"/", "\\"}) - 1
             ELSE IF StartsWithAt(rest, 1, <<"/","/">>) THEN 2 ELSE 0,
             LAMBDA slashes :
               IF ~special /\ slashes = 0 THEN [ok |-> TRUE, hostname |-> <<>>]
               ELSE Bind(SubSeq(rest, slashes + 1, Len(rest)),
                         LAMBDA tail : AuthorityOf(special, tail)))
      Parse(s, colon) ==
        IF /\ colon > 1
           /\ colon <= Len(s)
           /\ IsLetter(s[1])
           /\ \A k \in 2..(colon - 1) : IsLetter(s[k]) \/ IsDigit(s[k]) \/ s[k] \in {"+", "-", "."}
        THEN Bind(ToLowerCase(SubSeq(s, 1, colon - 1)) \in Special, LAMBDA special :
               Bind(SubSeq(s, colon + 1, Len(s)), LAMBDA rest : AfterScheme(special, rest)))
        ELSE Throws
  IN Bind(Trim(href), LAMBDA s : Bind(First(s, {":"}), LAMBDA colon : Parse(s, colon)))

\* tools/fetch_json.ts isWhitelisted: the hostname of the parsed URL is a
\* whitelisted domain or ends with "." and a whitelisted domain; a URL that
\* does not parse is not whitelisted
isWhitelisted_anySuffix(href) ==
  LET parsed == ParseURL(href)
  IN /\ parsed.ok
     /\ \E k \in 1..Len(WHITELIST) :
          parsed.hostname = WHITELIST[k] \/ EndsWith(parsed.hostname, WHITELIST[k])
isWhitelisted(href) ==
  LET parsed == ParseURL(href)
  IN /\ parsed.ok
     /\ \E k \in 1..Len(WHITELIST) :
          parsed.hostname = WHITELIST[k] \/ EndsWith(parsed.hostname, <<".">> \o WHITELIST[k])

\* encodeURIComponent: letters, digits and - _ . ! ~ * ' ( ) stay, every
\* other character becomes the %XX of each byte of its UTF-8 encoding
encodeURIComponent(str) ==
  LET Ascii == <<" ","!","\"","#","$","%","&","'","(",")","*","+",",","-",".","/","0","1","2","3","4","5","6","7","8","9",":",";","<","=",">","?","@","A","B","C","D","E","F","G","H","I","J","K","L","M","N","O","P","Q","R","S","T","U","V","W","X","Y","Z","[","\\","]","^","_","U+0060","a","b","c","d","e","f","g","h","i","j","k","l","m","n","o","p","q","r","s","t","u","v","w","x","y","z","{","|","}","~">>
      Hex == <<"0","1","2","3","4","5","6","7","8","9","A","B","C","D","E","F">>
      Unreserved == Range(LowerLetters) \cup Range(UpperLetters) \cup Range(Digits)
                      \cup {"-", "_", ".", "!", "~", "*", "'", "(", ")"}
      Byte(n) == <<"%", Hex[(n \div 16) + 1], Hex[(n % 16) + 1]>>
      Encode(c) == IF c \in Unreserved THEN <<c>>
                   ELSE IF c = BULLET THEN Byte(226) \o Byte(128) \o Byte(162)
                   ELSE IF c = "\n" THEN Byte(10)
                   ELSE IF c = "\t" THEN Byte(9)
                   ELSE IF c = "\r" THEN Byte(13)
                   ELSE Byte(31 + CHOOSE k \in 1..Len(Ascii) : Ascii[k] = c)
  IN FlatMap(Encode, str)

\* encodeURIComponent throws a URIError on a string with a surrogate that has
\* no partner (S.loneSurrogate stands for one such code unit)
EncodeThrows(str) == \E k \in 1..Len(str) : <<str[k]>> = S.loneSurrogate

\* fetchExternalRecords lines 122-124: the URL of the lookup of one ingredient
LookupUrl_foodOnly(ingredient, domain) ==
  <<"h","t","t","p","s",":","/","/">>
    \o HOST_FOOD
    \o <<"/","c","g","i","/","s","e","a","r","c","h",".","p","l","?","s","e","a","r","c","h","_","t","e","r","m","s","=">>
    \o encodeURIComponent(ingredient)
    \o <<"&","s","e","a","r","c","h","_","s","i","m","p","l","e","=","1","&","j","s","o","n","=","1","&","p","a","g","e","_","s","i","z","e","=","1">>
LookupUrl(ingredient, domain) ==
  <<"h","t","t","p","s",":","/","/">>
    \o (IF domain = S.cosmetic THEN HOST_BEAUTY ELSE HOST_FOOD)
    \o <<"/","c","g","i","/","s","e","a","r","c","h",".","p","l","?","s","e","a","r","c","h","_","t","e","r","m","s","=">>
    \o encodeURIComponent(ingredient)
    \o <<"&","s","e","a","r","c","h","_","s","i","m","p","l","e","=","1","&","j","s","o","n","=","1","&","p","a","g","e","_","s","i","z","e","=","1">>

\* how a network call of fetch_json ends
LookupOutcomes == {"json", "http_error", "not_json", "timeout"}

\* the first index from i on whose iteration does not end at once in the
\* catch of line 129: a URL that fetch_json refuses throws inside the try, is
\* logged and skipped; encodeURIComponent, line 122, throws outside of it
RECURSIVE NextLookup(_, _, _)
NextLookup(i, d, limit) ==
  IF ~IndexBelow(i, limit) THEN i
  ELSE IF EncodeThrows(d.ingredients[i + 1]) THEN i
  ELSE IF isWhitelisted(LookupUrl(d.ingredients[i + 1], d.domain_guess)) THEN i
  ELSE NextLookup(i + 1, d, limit)

\* ------------------------------------------------------------------------
\* agent/explain.ts: explainIngredients
\* ------------------------------------------------------------------------
StatusCode(n) == [t |-> "int", n |-> n]

ExplainKeyMissing_never(e) == FALSE
ExplainKeyMissing(e) == e.INTERFAZE_API_KEY = ""

\* lines 217-225
modelsToTry_noDedupe(e) ==
  Filter(LAMBDA x : Len(x) > 0,
    <<Trim(e.INTERFAZE_EXPLAIN_MODEL), Trim(e.INTERFAZE_OCR_MODEL), DEFAULT_MODEL>>)
modelsToTry(e) ==
  ArrayFromSet(Filter(LAMBDA x : Len(x) > 0,
    <<Trim(e.INTERFAZE_EXPLAIN_MODEL), Trim(e.INTERFAZE_OCR_MODEL), DEFAULT_MODEL>>))

\* lines 205-215 and 232-285: the context document is the input
ExplainRequest(model, context) ==
  [fn |-> "explainIngredients", model |-> model, format |-> "json_schema", input |-> context]

\* lines 307-308
LastStatusAfter_first(prev, r) == IF prev.t = "null" THEN StatusCode(r.status) ELSE prev
LastStatusAfter(prev, r) == StatusCode(r.status)

\* lines 311-314: the `continue` is the last statement of the loop body, so
\* the loop goes on to the next candidate whether or not the test holds
LoopGoesOn(r, model) ==
  IF (r.status = 400 \/ r.status = 422) /\ model # DEFAULT_MODEL THEN TRUE ELSE TRUE

\* lines 316-319, with `response` still null: lastStatus ?? 500
ExplainError(ls, text) ==
  ApiError("explainIngredients", IF ls.t = "null" THEN 500 ELSE ls.n, text)

\* lines 203-293: the context of the matches and the records, and the
\* request to the first candidate
StartModelLoop(recs) ==
  /\ requests' = Append(requests, ExplainRequest(modelsToTry(env)[1],
       [product |-> [domain_guess |-> data.domain_guess, sections |-> data.sections,
                     confidence |-> data.confidence],
        ingredients |-> data.ingredients,
        glossary_matches |-> matchGlossaryEntries(data.ingredients, glossary').v,
        risk_matches |-> applyRiskRules(data.ingredients, rules').v,
        external_records |-> recs]))
  /\ candidate' = 1
  /\ pc' = "model"

\* line 127: the network call of the lookup at index i
IssueLookup_twice(i) ==
  /\ lookups' = Append(Append(lookups, LookupUrl(data.ingredients[i + 1], data.domain_guess)),
                        LookupUrl(data.ingredients[i + 1], data.domain_guess))
  /\ index' = i
  /\ pc' = "lookup"
IssueLookup(i) ==
  /\ lookups' = Append(lookups, LookupUrl(data.ingredients[i + 1], data.domain_guess))
  /\ index' = i
  /\ pc' = "lookup"

\* lines 112-135 and 201-293: fetchExternalRecords from index i on, until a
\* lookup reaches the network; after the last one the first model request
ContinueLookups(i, recs) ==
  LET limit == FetchLimit(data.ingredients, env)
      next == NextLookup(i, data, limit)
  IN IF ~shouldFetchExternally(env) \/ Len(data.ingredients) = 0 \/ ~IndexBelow(next, limit)
     THEN StartModelLoop(recs) /\ UNCHANGED <<index, lookups, outcome>>
     ELSE IF EncodeThrows(data.ingredients[next + 1])
     THEN /\ outcome' = Thrown([name |-> "URIError", message |-> "URI malformed",
                                 status |-> 0, errText |-> ""])
          /\ pc' = "done"
          /\ UNCHANGED <<index, lookups, requests, candidate>>
     ELSE IssueLookup(next) /\ UNCHANGED <<requests, candidate, outcome>>

\* lines 187-197: the no-credential short-circuit, else both reads start
ExplainStart ==
  /\ op = "explainIngredients"
  /\ pc = "start"
  /\ IF ExplainKeyMissing(env)
     THEN /\ outcome' = Returned(EXPLAIN_DEFAULT_RESULT)
          /\ pc' = "done"
          /\ UNCHANGED <<pendingReads, fsReads>>
     ELSE /\ fsReads' = fsReads \o <<GLOSSARY_FILE, RULES_FILE>>
          /\ pendingReads' = DocFiles
          /\ pc' = "read"
          /\ UNCHANGED outcome
  /\ UNCHANGED <<env, files, op, image_url, data, requests, received, response,
                 glossary, rules, index, lookups, records, settled, candidate,
                 lastStatus, lastErrorText, toolVars>>

\* lines 57-66 and 194-201: one of the two reads settles; when both have,
\* the matches are computed, then the first lookup is issued, or the first
\* model request when there is none
ReadComplete ==
  /\ op = "explainIngredients"
  /\ pc = "read"
  /\ \E f \in pendingReads :
       /\ pendingReads' = pendingReads \ {f}
       /\ glossary' = IF f = GLOSSARY_FILE THEN readJsonFile(files[f], Arr(<<>>)) ELSE glossary
       /\ rules' = IF f = RULES_FILE THEN readJsonFile(files[f], Arr(<<>>)) ELSE rules
       /\ IF pendingReads' # {}
          THEN UNCHANGED <<pc, index, lookups, requests, candidate, outcome>>
          ELSE IF \/ ~matchGlossaryEntries(data.ingredients, glossary').ok
                  \/ ~applyRiskRules(data.ingredients, rules').ok
          THEN /\ outcome' = Thrown(TypeError)
               /\ pc' = "done"
               /\ UNCHANGED <<index, lookups, requests, candidate>>
          ELSE ContinueLookups(0, records)
  /\ UNCHANGED <<env, files, op, image_url, data, received, response,
                 fsReads, records, settled, lastStatus, lastErrorText, toolVars>>

\* lines 120-134 and 201-300: a lookup settles; the next one is issued, or
\* the first model request after the last one
LookupComplete ==
  /\ op = "explainIngredients"
  /\ pc = "lookup"
  /\ UNCHANGED <<glossary, rules>>
  /\ \E o \in LookupOutcomes :
       /\ settled' = Append(settled, o)
       /\ records' = IF o = "json"
                     THEN Append(records, [ingredient |-> data.ingredients[index + 1],
                                           source |-> IF data.domain_guess = S.cosmetic
                                                      THEN HOST_BEAUTY ELSE HOST_FOOD])
                     ELSE records
       /\ ContinueLookups(index + 1, records')
  /\ UNCHANGED <<env, files, op, image_url, data, received, response,
                 pendingReads, fsReads, lastStatus, lastErrorText, toolVars>>

\* lines 292-383: the answer of the current candidate arrives
ModelResponse ==
  /\ op = "explainIngredients"
  /\ pc = "model"
  /\ \E r \in ExplainResponses :
       LET models == modelsToTry(env)
       IN /\ received' = Append(received, r)
          /\ IF Ok(r)
             THEN /\ response' = r
                  /\ outcome' = ExplainSuccessOutcome(r.payload, env)
                  /\ pc' = "done"
                  /\ UNCHANGED <<requests, candidate, lastStatus, lastErrorText>>
             ELSE /\ lastStatus' = LastStatusAfter(lastStatus, r)
                  /\ lastErrorText' = r.errText
                  /\ UNCHANGED response
                  /\ IF LoopGoesOn(r, models[candidate]) /\ candidate < Len(models)
                     THEN /\ requests' = Append(requests, ExplainRequest(models[candidate + 1], requests[1].input))
                          /\ candidate' = candidate + 1
                          /\ UNCHANGED <<pc, outcome>>
                     ELSE /\ outcome' = Thrown(ExplainError(lastStatus', lastErrorText'))
                          /\ pc' = "done"
                          /\ UNCHANGED <<requests, candidate>>
  /\ UNCHANGED <<env, files, op, image_url, data, pendingReads, fsReads,
                 glossary, rules, index, lookups, records, settled, toolVars>>

\* ------------------------------------------------------------------------
\* tools/fetch_json.ts: fetch_json
\* ------------------------------------------------------------------------
\* the delay of setTimeout, in milliseconds
TIMEOUT_MS == 6000

\* the step by which the clock advances
TickMs == 2000

\* URLs a caller may hand to fetch_json
FetchUrls ==
  { <<"h","t","t","p","s",":","/","/","w","o","r","l","d",".","o","p","e","n","f","o","o","d","f","a","c","t","s",".","o","r","g","/","c","g","i","/","s","e","a","r","c","h",".","p","l","?","s","e","a","r","c","h","_","t","e","r","m","s","=","w","a","t","e","r","&","j","s","o","n","=","1">>,
    <<"h","t","t","p","s",":","/","/","o","p","e","n","f","o","o","d","f","a","c","t","s",".","o","r","g">>,
    <<"h","t","t","p","s",":","/","/","W","O","R","L","D",".","O","p","e","n","B","e","a","u","t","y","F","a","c","t","s",".","o","r","g",":","4","4","3","/","p","r","o","d","u","c","t">>,
    <<"h","t","t","p","s",":","/","/","u","s","e","r","@","f","r",".","o","p","e","n","b","e","a","u","t","y","f","a","c","t","s",".","o","r","g","/">>,
    <<"h","t","t","p","s",":","/","/","e","v","i","l",".","c","o","m","/">>,
    <<"h","t","t","p","s",":","/","/","e","v","i","l","o","p","e","n","f","o","o","d","f","a","c","t","s",".","o","r","g","/">>,
    <<"n","o","t"," ","a"," ","u","r","l">>,
    <<>>,
    <<"/","/","w","o","r","l","d",".","o","p","e","n","f","o","o","d","f","a","c","t","s",".","o","r","g","/","x">>,
    <<"h","t","t","p","s",":","/","/","o","p","e","n","f","o","o","d","f","a","c","t","s",".","o","r","g",".","e","v","i","l",".","c","o","m","/">>,
    <<"h","t","t","p","s",":","/","/","e","v","i","l",".","c","o","m","/","?","n","e","x","t","=",".","o","p","e","n","f","o","o","d","f","a","c","t","s",".","o","r","g">>,
    <<"h","t","t","p",":","/","/","e","v","i","l",".","c","o","m","#",".","o","p","e","n","b","e","a","u","t","y","f","a","c","t","s",".","o","r","g">>,
    <<"h","t","t","p","s",":","/","/","o","p","e","n","f","o","o","d","f","a","c","t","s",".","o","r","g","@","e","v","i","l",".","c","o","m","/">>,
    <<"h","t","t","p","s",":","/","/","e","v","i","l",".","c","o","m","\\","@","o","p","e","n","f","o","o","d","f","a","c","t","s",".","o","r","g","/">>,
    <<"m","a","i","l","t","o",":","b","o","t","@","o","p","e","n","f","o","o","d","f","a","c","t","s",".","o","r","g">>,
    <<"h","t","t","p","s",":","/","/","o","p","e","n","f","o","o","d","f","a","c","t","s",".","o","r","g",".","/">>,
    <<" "," ","h","t","t","p","s",":","/","/","w","o","r","l","d",".","o","p","e","n","f","o","o","d","f","a","c","t","s",".","o","r","g","/"," ">>,
    <<"h","t","t","p","s",":","/","/","w","o","r","l","d",".","o","p","e","n","f","o","o","d","f","a","c","t","s",".","o","r","g",":","8","0","a","/">> }

\* status and response.headers.get('content-type') of the responses that
\* fetch may resolve with
FetchHeads ==
  { [status |-> st, contentType |-> ct, body |-> <<>>] :
      st \in {200, 204, 299, 300, 404, 500},
      ct \in { Null, Str(<<>>),
              Str(<<"a","p","p","l","i","c","a","t","i","o","n","/","j","s","o","n">>),
              Str(<<"a","p","p","l","i","c","a","t","i","o","n","/","j","s","o","n",";"," ","c","h","a","r","s","e","t","=","u","t","f","-","8">>),
              Str(<<"a","p","p","l","i","c","a","t","i","o","n","/","l","d","+","j","s","o","n">>),
              Str(<<"t","e","x","t","/","h","t","m","l">>),
              Str(<<"t","e","x","t","/","h","t","m","l",";"," ","c","h","a","r","s","e","t","=","u","t","f","-","8">>),
              Str(<<"t","e","x","t","/","p","l","a","i","n">>) } }

\* bodies of a response
FetchBodies ==
  { <<"{","\"","c","o","u","n","t","\"",":","1",",","\"","p","r","o","d","u","c","t","s","\"",":","[","]","}">>,
    <<"[","]">>,
    <<"n","u","l","l">>,
    <<"<","h","t","m","l",">","o","o","p","s","<","/","h","t","m","l",">">>,
    <<>>,
    <<"{","\"","c","o","u","n","t","\"",":">> }

\* new Error(message) thrown by fetch_json
FetchJsonError(message, status) ==
  [name |-> "Error", message |-> message, status |-> status, errText |-> ""]

\* !contentType || !contentType.includes('application/json')
NotJson_missingOnly(contentType) == ~Truthy(contentType)
NotJson(contentType) ==
  \/ ~Truthy(contentType)
  \/ ~\E k \in 1..Len(contentType.s) :
        StartsWithAt(contentType.s, k, <<"a","p","p","l","i","c","a","t","i","o","n","/","j","s","o","n">>)

\* clearTimeout(timeout)
ClearTimeout_leak(t) == t
ClearTimeout(t) == [t EXCEPT !.armed = FALSE]

\* lines 81-91: the whitelist check, then the controller, the timer and the
\* network call
FetchStart ==
  /\ op = "fetch_json"
  /\ pc = "start"
  /\ IF ~isWhitelisted(url)
     THEN /\ outcome' = Thrown(FetchJsonError("fetch_json: URL not allowed", 0))
          /\ pc' = "done"
          /\ UNCHANGED <<timeout, lookups>>
     ELSE /\ timeout' = [armed |-> TRUE, due |-> now + TIMEOUT_MS]
          /\ lookups' = Append(lookups, url)
          /\ pc' = "fetch"
          /\ UNCHANGED outcome
  /\ UNCHANGED <<response, now, controller, op, url, arg, heap, results, clientVars>>

\* lines 88-102: fetch resolves with the status and the headers of a
\* response.  A timer that is due runs before the callbacks of the network
\* (the order of the phases of the event loop), so a response is handled
\* only while the timer is not due.
FetchResolves ==
  /\ op = "fetch_json"
  /\ pc = "fetch"
  /\ now < timeout.due
  /\ \E head \in FetchHeads :
       /\ response' = head
       /\ IF ~Ok(head)
          THEN /\ outcome' = Thrown(FetchJsonError("fetch_json: HTTP", head.status))
               /\ timeout' = ClearTimeout(timeout)
               /\ pc' = "done"
          ELSE IF NotJson(head.contentType)
          THEN /\ outcome' = Thrown(FetchJsonError("fetch_json: Response is not JSON", 0))
               /\ timeout' = ClearTimeout(timeout)
               /\ pc' = "done"
          ELSE /\ pc' = "json"
               /\ UNCHANGED <<outcome, timeout>>
  /\ UNCHANGED <<lookups, now, controller, op, url, arg, heap, results, clientVars>>

\* lines 88 and 104-111: fetch rejects because the network failed
FetchRejects ==
  /\ op = "fetch_json"
  /\ pc = "fetch"
  /\ now < timeout.due
  /\ outcome' = Thrown(FetchJsonError("fetch_json: fetch failed", 0))
  /\ timeout' = ClearTimeout(timeout)
  /\ pc' = "done"
  /\ UNCHANGED <<response, lookups, now, controller, op, url, arg, heap, results, clientVars>>

\* lines 103-111: response.json() settles when the body has arrived
JsonSettles ==
  /\ op = "fetch_json"
  /\ pc = "json"
  /\ now < timeout.due
  /\ \E body \in FetchBodies :
       /\ response' = [response EXCEPT !.body = body]
       /\ outcome' = IF JSONParse(body).ok
                     THEN Returned(JSONParse(body).v)
                     ELSE Thrown(FetchJsonError("fetch_json: Unexpected token", 0))
  /\ timeout' = ClearTimeout(timeout)
  /\ pc' = "done"
  /\ UNCHANGED <<lookups, now, controller, op, url, arg, heap, results, clientVars>>

\* lines 86 and 104-111: the timer fires, controller.abort() rejects the
\* pending fetch or response.json() with an AbortError
TimerFires ==
  /\ op = "fetch_json"
  /\ pc \in {"fetch", "json"}
  /\ timeout.armed
  /\ now >= timeout.due
  /\ controller' = [aborted |-> TRUE]
  /\ outcome' = Thrown(FetchJsonError("fetch_json: Request timed out after 6s", 0))
  /\ timeout' = ClearTimeout(timeout)
  /\ pc' = "done"
  /\ UNCHANGED <<response, lookups, now, op, url, arg, heap, results, clientVars>>

\* time passes while the call waits; it does not pass a timer that is due
Tick ==
  /\ op = "fetch_json"
  /\ pc \in {"fetch", "json"}
  /\ now < timeout.due
  /\ now' = Min(now + TickMs, timeout.due)
  /\ UNCHANGED <<pc, response, outcome, lookups, timeout, controller, op, url, arg, heap, results, clientVars>>

\* ------------------------------------------------------------------------
\* The specification: one call of one of the two clients
\* ------------------------------------------------------------------------
\* a call that has not run yet: no local is set, nothing was sent
NothingSent ==
  /\ pc = "start"
  /\ requests = <<>>
  /\ received = <<>>
  /\ response = NoResponse
  /\ outcome = Pending
  /\ pendingReads = {}
  /\ fsReads = <<>>
  /\ glossary = Undefined
  /\ rules = Undefined
  /\ index = 0
  /\ lookups = <<>>
  /\ records = <<>>
  /\ settled = <<>>
  /\ candidate = 0
  /\ lastStatus = Null
  /\ lastErrorText = ""

\* no timer and no controller exist, and the heap holds what the load of the
\* modules has put there: the arrays and the object of the two DEFAULT_RESULT
\* constants (ocr.ts lines 290-296, explain.ts lines 51-55)
ModulesLoaded ==
  /\ now = 0
  /\ timeout = [armed |-> FALSE, due |-> 0]
  /\ controller = [aborted |-> FALSE]
  /\ heap = (<<0, "ingredients">> :> <<>>) @@ (<<0, "sections">> :> <<>>)
              @@ (<<0, "items">> :> <<>>)
  /\ results = <<>>

Init ==
  /\ env \in Envs
  /\ \/ /\ op = "analyzeLabel"
        /\ image_url \in ImageUrls
        /\ data = OCR_DEFAULT_RESULT
        /\ files = [f \in DocFiles |-> MissingFile]
     \/ /\ op = "explainIngredients"
        /\ image_url = Undefined
        /\ data \in OCRInputs
        /\ files \in [DocFiles -> {MissingFile, FileWith(CorruptText),
                                   FileWith(GlossaryText), FileWith(RulesText)}]
        /\ \A f \in DocFiles : files[f] \in FileStates(f)
  /\ NothingSent
  /\ ModulesLoaded
  /\ url = <<>>
  /\ arg = Undefined

Next ==
  \/ AnalyzeStart
  \/ AnalyzeFirstResponse
  \/ AnalyzeRetryResponse
  \/ ExplainStart
  \/ ReadComplete
  \/ LookupComplete
  \/ ModelResponse

Spec == Init /\ [][Next]_vars

\* no client was called: nothing is configured, no argument was passed
NoClientCall ==
  /\ env = [INTERFAZE_API_KEY |-> "", NODE_ENV |-> "development",
            WEB_FETCH_ENABLED |-> <<>>, OFF_FETCH_LIMIT |-> <<>>,
            INTERFAZE_EXPLAIN_MODEL |-> <<>>, INTERFAZE_OCR_MODEL |-> <<>>]
  /\ files = [f \in DocFiles |-> MissingFile]
  /\ image_url = Undefined
  /\ data = OCR_DEFAULT_RESULT

\* ------------------------------------------------------------------------
\* The specification of one call of explainIngredients with one candidate
\* model, over the configurations of the lookups and the states of the
\* documents
\* ------------------------------------------------------------------------
\* WEB_FETCH_ENABLED and OFF_FETCH_LIMIT as a deployment may set them
LookupEnvs ==
  { [INTERFAZE_API_KEY |-> "sk-live", NODE_ENV |-> "production", WEB_FETCH_ENABLED |-> <<>>, OFF_FETCH_LIMIT |-> <<>>, INTERFAZE_EXPLAIN_MODEL |-> <<>>, INTERFAZE_OCR_MODEL |-> <<>>],
    [INTERFAZE_API_KEY |-> "sk-live", NODE_ENV |-> "production", WEB_FETCH_ENABLED |-> <<"f","a","l","s","e">>, OFF_FETCH_LIMIT |-> <<"2">>, INTERFAZE_EXPLAIN_MODEL |-> <<>>, INTERFAZE_OCR_MODEL |-> <<>>],
    [INTERFAZE_API_KEY |-> "sk-live", NODE_ENV |-> "production", WEB_FETCH_ENABLED |-> <<"t","r","u","e">>, OFF_FETCH_LIMIT |-> <<>>, INTERFAZE_EXPLAIN_MODEL |-> <<>>, INTERFAZE_OCR_MODEL |-> <<>>],
    [INTERFAZE_API_KEY |-> "sk-live", NODE_ENV |-> "production", WEB_FETCH_ENABLED |-> <<"T","R","U","E">>, OFF_FETCH_LIMIT |-> <<"2">>, INTERFAZE_EXPLAIN_MODEL |-> <<>>, INTERFAZE_OCR_MODEL |-> <<>>],
    [INTERFAZE_API_KEY |-> "sk-live", NODE_ENV |-> "production", WEB_FETCH_ENABLED |-> <<"T","r","u","e">>, OFF_FETCH_LIMIT |-> <<"1">>, INTERFAZE_EXPLAIN_MODEL |-> <<>>, INTERFAZE_OCR_MODEL |-> <<>>],
    [INTERFAZE_API_KEY |-> "sk-live", NODE_ENV |-> "production", WEB_FETCH_ENABLED |-> <<"t","r","u","e">>, OFF_FETCH_LIMIT |-> <<"0">>, INTERFAZE_EXPLAIN_MODEL |-> <<>>, INTERFAZE_OCR_MODEL |-> <<>>],
    [INTERFAZE_API_KEY |-> "sk-live", NODE_ENV |-> "production", WEB_FETCH_ENABLED |-> <<"t","r","u","e">>, OFF_FETCH_LIMIT |-> <<"5">>, INTERFAZE_EXPLAIN_MODEL |-> <<>>, INTERFAZE_OCR_MODEL |-> <<>>],
    [INTERFAZE_API_KEY |-> "sk-live", NODE_ENV |-> "production", WEB_FETCH_ENABLED |-> <<"t","r","u","e">>, OFF_FETCH_LIMIT |-> <<"m","a","n","y">>, INTERFAZE_EXPLAIN_MODEL |-> <<>>, INTERFAZE_OCR_MODEL |-> <<>>],
    [INTERFAZE_API_KEY |-> "", NODE_ENV |-> "production", WEB_FETCH_ENABLED |-> <<"t","r","u","e">>, OFF_FETCH_LIMIT |-> <<>>, INTERFAZE_EXPLAIN_MODEL |-> <<>>, INTERFAZE_OCR_MODEL |-> <<>>] }

\* Extraction Results with up to four ingredients, as normalizeIngredients
\* leaves them
LookupInputs ==
  { OCR_DEFAULT_RESULT,
    [domain_guess |-> S.food, ingredients |-> <<<<"w","a","t","e","r">>, <<"s","u","g","a","r">>>>, sections |-> <<>>, confidence |-> 9000, language |-> S.en],
    [domain_guess |-> S.cosmetic, ingredients |-> <<<<"a","q","u","a">>>>, sections |-> <<>>, confidence |-> 9000, language |-> S.en],
    [domain_guess |-> S.drug, ingredients |-> <<<<"w","a","t","e","r">>, <<"e"," ","3","3","0"," ","#","1">>, <<"c","o","c","o","a"," ","1","0","0","%","/","k","g">>, <<"s","a","l","t">>>>, sections |-> <<>>, confidence |-> 9000, language |-> S.en],
    [domain_guess |-> S.cosmetic, ingredients |-> <<<<"a","q","u","a">>, <<"@","e","v","i","l",".","c","o","m","/","?","x","=","1","&","y">>, <<"p","a","r","f","u","m">>>>, sections |-> <<>>, confidence |-> 9000, language |-> S.en],
    [domain_guess |-> S.food, ingredients |-> <<<<"w","a","t","e","r">>, <<"c","a","f">> \o S.loneSurrogate, <<"s","a","l","t">>>>, sections |-> <<>>, confidence |-> 9000, language |-> S.en] }

InitEnrich ==
  /\ op = "explainIngredients"
  /\ env \in LookupEnvs
  /\ data \in LookupInputs
  /\ image_url = Undefined
  /\ files \in [DocFiles -> UNION {FileStates(f) : f \in DocFiles}]
  /\ \A f \in DocFiles : files[f] \in FileStates(f)
  /\ NothingSent
  /\ ModulesLoaded
  /\ url = <<>>
  /\ arg = Undefined

NextEnrich ==
  \/ ExplainStart
  \/ ReadComplete
  \/ LookupComplete
  \/ ModelResponse

SpecEnrich == InitEnrich /\ [][NextEnrich]_vars

\* ------------------------------------------------------------------------
\* POST /api/analyze (src/app/api/ocr/route.ts, lines 45-159).  `arg` is the
\* request, `requests` the calls the handler awaits, `received` what they
\* settled with, `response` the answer of the file upload, `outcome` the
\* NextResponse.  analyzeLabel and explainIngredients settle with any outcome
\* their own models end with.
\* ------------------------------------------------------------------------
routeFrame ==
  <<env, files, op, arg, pendingReads, fsReads, glossary, rules, index, lookups,
    records, settled, candidate, lastStatus, lastErrorText, url, now, timeout,
    controller, heap, results>>

MAX_FILE_SIZE == 5 * 1024 * 1024

\* lines 58-84: null, a thrown error, or the file
readFileFromRequest(request) ==
  LET ALLOWED_MIME == {<<"i","m","a","g","e","/","j","p","e","g">>, <<"i","m","a","g","e","/","p","n","g">>, <<"i","m","a","g","e","/","w","e","b","p">>, <<"i","m","a","g","e","/","g","i","f">>}
  IN IF ~StartsWithAt(request.contentType, 1, <<"m","u","l","t","i","p","a","r","t","/","f","o","r","m","-","d","a","t","a">>) THEN Returned(Null)
     ELSE IF ~request.form.ok THEN Thrown([name |-> "Error", message |-> "Failed to parse body as FormData", status |-> 0, errText |-> ""])
     ELSE IF request.form.file.t # "file" THEN Returned(Null)
     ELSE IF request.form.file.mime \notin ALLOWED_MIME
     THEN Thrown([name |-> "Error", message |-> "Unsupported file type", status |-> 0, errText |-> ""])
     ELSE IF request.form.file.size > MAX_FILE_SIZE
     THEN Thrown([name |-> "Error", message |-> "File too large. Maximum size is 5 MB.", status |-> 0, errText |-> ""])
     ELSE Returned(request.form.file)

\* lines 112-124: what uploadToInterfaze ends with once the upload answered
\* (INTERFAZE_API_BASE unset)
uploadToInterfaze(r, file) ==
  IF ~Ok(r)
  THEN Thrown([name |-> "Error", message |-> "File upload failed",
               status |-> r.status, errText |-> r.errText])
  ELSE IF GetThrows(r.payload) THEN Thrown(TypeError)
  ELSE IF Truthy(OptGet(r.payload, K.url)) THEN Returned(OptGet(r.payload, K.url))
  ELSE IF Truthy(OptGet(r.payload, K.id))
  THEN Returned(Str(<<"h","t","t","p","s",":","/","/","a","p","i",".","i","n","t","e","r","f","a","z","e",".","a","i","/","v","1","/","f","i","l","e","s","/">> \o OptGet(r.payload, K.id).s))
  ELSE Thrown([name |-> "Error", message |-> "Interfaze file upload response missing url", status |-> 0, errText |-> ""])

\* lines 127-148 up to the first await that leaves the handler, and lines
\* 86-110 of uploadToInterfaze
PostStart ==
  /\ op = "POST"
  /\ pc = "start"
  /\ UNCHANGED <<routeFrame, data, response>>
  /\ IF StartsWithAt(arg.contentType, 1, <<"a","p","p","l","i","c","a","t","i","o","n","/","j","s","o","n">>)
     THEN IF ~arg.json.ok \/ GetThrows(arg.json.v)
          THEN /\ outcome' = Returned([status |-> 500,
                                       body |-> [error |-> IF arg.json.ok THEN TypeError
                                                           ELSE [name |-> "Error", message |-> "Unexpected token", status |-> 0, errText |-> ""]]])
               /\ pc' = "done"
               /\ UNCHANGED <<image_url, requests, received>>
          ELSE LET given == OptGet(arg.json.v, K.image_url)
               IN IF IsString(given) /\ Len(Trim(given.s)) > 0
                  THEN /\ image_url' = Str(Trim(given.s))
                       /\ requests' = Append(requests, [fn |-> "analyzeLabel", input |-> image_url'])
                       /\ pc' = "analyze"
                       /\ UNCHANGED <<received, outcome>>
                  ELSE /\ outcome' = Returned([status |-> 400,
                                               body |-> [error |-> "image_url or image file is required"]])
                       /\ pc' = "done"
                       /\ UNCHANGED <<image_url, requests, received>>
     ELSE LET file == readFileFromRequest(arg)
          IN IF file.kind = "thrown"
             THEN /\ outcome' = Returned([status |-> 500, body |-> [error |-> file.error]])
                  /\ pc' = "done"
                  /\ UNCHANGED <<image_url, requests, received>>
             ELSE IF file.value = Null
             THEN /\ outcome' = Returned([status |-> 400,
                                          body |-> [error |-> "image_url or image file is required"]])
                  /\ pc' = "done"
                  /\ UNCHANGED <<image_url, requests, received>>
             ELSE /\ requests' = Append(requests, [fn |-> "uploadToInterfaze", input |-> file.value])
                  /\ UNCHANGED image_url
                  /\ IF env.INTERFAZE_API_KEY = ""
                     THEN /\ received' = Append(received, Thrown([name |-> "Error", message |-> "Interfaze credentials missing", status |-> 0, errText |-> ""]))
                          /\ outcome' = Returned([status |-> 500,
                                                  body |-> [error |-> [name |-> "Error", message |-> "Interfaze credentials missing", status |-> 0, errText |-> ""]]])
                          /\ pc' = "done"
                     ELSE /\ pc' = "upload"
                          /\ UNCHANGED <<received, outcome>>

UploadResponses ==
  Failures \cup {OkResponse(p) : p \in
    {Obj(K.url :> Str(<<"h","t","t","p","s",":","/","/","c","d","n",".","e","x","a","m","p","l","e","/","l","a","b","e","l",".","p","n","g">>)),
     Obj(K.id :> Str(<<"f","i","l","e","_","1">>)),
     Obj((K.url :> Str(<<>>)) @@ (K.id :> Str(<<"f","i","l","e","_","1">>))),
     Obj((K.url :> Null) @@ (K.id :> Null)),
     Obj(K.url :> Num(5 * Scale)),
     EmptyObj,
     Null}}

\* lines 94-124 and 140-148: the upload answers
UploadSettles ==
  /\ op = "POST"
  /\ pc = "upload"
  /\ UNCHANGED <<routeFrame, data>>
  /\ \E r \in UploadResponses :
       LET hosted == uploadToInterfaze(r, requests[1].input)
       IN /\ response' = r
          /\ received' = Append(received, hosted)
          /\ IF hosted.kind = "thrown"
             THEN /\ outcome' = Returned([status |-> 500, body |-> [error |-> hosted.error]])
                  /\ pc' = "done"
                  /\ UNCHANGED <<image_url, requests>>
             ELSE /\ image_url' = hosted.value
                  /\ requests' = Append(requests, [fn |-> "analyzeLabel", input |-> image_url'])
                  /\ pc' = "analyze"
                  /\ UNCHANGED outcome

\* lines 148-149: analyzeLabel settles
AnalyzeSettles_partial ==
  /\ op = "POST"
  /\ pc = "analyze"
  /\ UNCHANGED <<routeFrame, image_url, response>>
  /\ \E ocr \in (IF InvalidImage(image_url) THEN {Thrown(InvalidInputError)}
                  ELSE IF OcrKeyMissing(env) THEN {Returned(OCR_DEFAULT_RESULT)}
                  ELSE {AnalyzeOutcome(r) : r \in OCRResponses}) :
       /\ received' = Append(received, ocr)
       /\ IF ocr.kind = "thrown"
          THEN /\ outcome' = Returned([status |-> 500, body |-> [error |-> ocr.error]])
               /\ pc' = "done"
               /\ UNCHANGED <<data, requests>>
          ELSE /\ data' = ocr.value
               /\ requests' = Append(requests, [fn |-> "explainIngredients", input |-> OCR_DEFAULT_RESULT])
               /\ outcome' = Returned([status |-> 200, body |-> [ocr |-> ocr.value]])
               /\ pc' = "explain"
AnalyzeSettles ==
  /\ op = "POST"
  /\ pc = "analyze"
  /\ UNCHANGED <<routeFrame, image_url, response>>
  /\ \E ocr \in (IF InvalidImage(image_url) THEN {Thrown(InvalidInputError)}
                  ELSE IF OcrKeyMissing(env) THEN {Returned(OCR_DEFAULT_RESULT)}
                  ELSE {AnalyzeOutcome(r) : r \in OCRResponses}) :
       /\ received' = Append(received, ocr)
       /\ IF ocr.kind = "thrown"
          THEN /\ outcome' = Returned([status |-> 500, body |-> [error |-> ocr.error]])
               /\ pc' = "done"
               /\ UNCHANGED <<data, requests>>
          ELSE /\ data' = ocr.value
               /\ requests' = Append(requests, [fn |-> "explainIngredients", input |-> ocr.value])
               /\ pc' = "explain"
               /\ UNCHANGED outcome

\* lines 149-158: explainIngredients settles
ExplainSettles ==
  /\ op = "POST"
  /\ pc = "explain"
  /\ UNCHANGED <<routeFrame, image_url, data, requests, response>>
  /\ \E explanation \in
         (IF ExplainKeyMissing(env) THEN {Returned(EXPLAIN_DEFAULT_RESULT)}
          ELSE {ExplainSuccessOutcome(r.payload, env) : r \in {x \in ExplainResponses : Ok(x)}}
                 \cup {Thrown(ExplainError(Num(r.status), r.errText)) : r \in Failures}) :
       /\ received' = Append(received, explanation)
       /\ pc' = "done"
       /\ outcome' = IF explanation.kind = "thrown"
                     THEN Returned([status |-> 500, body |-> [error |-> explanation.error]])
                     ELSE Returned([status |-> 200,
                                    body |-> [ocr |-> data, explanation |-> explanation.value]])

RouteRequests ==
  LET JsonRequest(body) == [contentType |-> <<"a","p","p","l","i","c","a","t","i","o","n","/","j","s","o","n",";"," ","c","h","a","r","s","e","t","=","u","t","f","-","8">>, json |-> body,
                            form |-> [ok |-> FALSE]]
      FormRequest(form) == [contentType |-> <<"m","u","l","t","i","p","a","r","t","/","f","o","r","m","-","d","a","t","a",";"," ","b","o","u","n","d","a","r","y","=","x">>, json |-> ParseFail, form |-> form]
      File(mime, size) == [t |-> "file", mime |-> mime, size |-> size]
  IN {JsonRequest(b) : b \in
        {ParseFail,
         [ok |-> TRUE, v |-> Null],
         [ok |-> TRUE, v |-> EmptyObj],
         [ok |-> TRUE, v |-> Obj(K.image_url :> Num(5 * Scale))],
         [ok |-> TRUE, v |-> Obj(K.image_url :> Str(<<" ", " ">>))],
         [ok |-> TRUE, v |-> Obj(K.image_url :> Str(<<"h","t","t","p","s",":","/","/","c","d","n",".","e","x","a","m","p","l","e","/","l","a","b","e","l",".","p","n","g">>))],
         [ok |-> TRUE, v |-> Obj(K.image_url :> Str(<<" ">> \o <<"h","t","t","p","s",":","/","/","c","d","n",".","e","x","a","m","p","l","e","/","l","a","b","e","l",".","p","n","g">> \o <<" ">>))]}}
     \cup {FormRequest(f) : f \in
        {[ok |-> FALSE],
         [ok |-> TRUE, file |-> Null],
         [ok |-> TRUE, file |-> Str(<<"l","a","b","e","l">>)],
         [ok |-> TRUE, file |-> File(<<"i","m","a","g","e","/","p","n","g">>, 1024)],
         [ok |-> TRUE, file |-> File(<<"i","m","a","g","e","/","w","e","b","p">>, MAX_FILE_SIZE)],
         [ok |-> TRUE, file |-> File(<<"i","m","a","g","e","/","j","p","e","g">>, MAX_FILE_SIZE + 1)],
         [ok |-> TRUE, file |-> File(<<"t","e","x","t","/","p","l","a","i","n">>, 10)]}}
     \cup {[contentType |-> c, json |-> ParseFail, form |-> [ok |-> FALSE]] : c \in {<<>>, <<"t","e","x","t","/","p","l","a","i","n">>}}

InitRoute ==
  /\ op = "POST"
  /\ arg \in RouteRequests
  /\ env \in {[INTERFAZE_API_KEY |-> k, NODE_ENV |-> "production",
               WEB_FETCH_ENABLED |-> <<>>, OFF_FETCH_LIMIT |-> <<>>,
               INTERFAZE_EXPLAIN_MODEL |-> <<>>, INTERFAZE_OCR_MODEL |-> <<>>] :
                 k \in {"", "sk-live"}}
  /\ files = [f \in DocFiles |-> MissingFile]
  /\ image_url = Undefined
  /\ data = OCR_DEFAULT_RESULT
  /\ NothingSent
  /\ ModulesLoaded
  /\ url = <<>>

NextRoute ==
  \/ PostStart
  \/ UploadSettles
  \/ AnalyzeSettles
  \/ ExplainSettles

SpecRoute == InitRoute /\ [][NextRoute]_vars

\* ------------------------------------------------------------------------
\* The specification of one call of fetch_json
\* ------------------------------------------------------------------------
InitFetch ==
  /\ op = "fetch_json"
  /\ NoClientCall
  /\ NothingSent
  /\ ModulesLoaded
  /\ url \in FetchUrls
  /\ arg = Undefined

NextFetch ==
  \/ FetchStart
  \/ FetchResolves
  \/ FetchRejects
  \/ JsonSettles
  \/ TimerFires
  \/ Tick

SpecFetch == InitFetch /\ [][NextFetch]_vars

\* ------------------------------------------------------------------------
\* The normalizers, called on their own
\* ------------------------------------------------------------------------
\* longest generated string, longest generated list
MaxLen == 3
MaxItems == 2
\* generated numbers reach this many ten-thousandths below 0 and above 1
Margin == 25

\* the values handed to a normalizer
NormalizerInputs(fn) ==
  LET NotNumbers == {Undefined, Null, NaN, Bool(TRUE), EmptyObj, Arr(<<Num(5000)>>), Str(<<"0",".","5">>), Str(<<>>)}
      Texts == UNION {[1..n -> {"a", "B", " ", ",", "\n"}] : n \in 0..MaxLen}
      ItemPool == { Obj(K.name :> Str(<<"S","u","g","a","r">>) @@ K.function :> Str(<<"s","w","e","e","t","e","n","e","r">>) @@ K.risk_level :> Str(<<"Y","e","l","l","o","w">>) @@ K.why :> Str(<<"a","d","d","s"," ","c","a","l","o","r","i","e","s">>) @@ K.certainty :> Num(8125) @@ K.sources :> Arr(<<Str(<<"g","l","o","s","s","a","r","y">>), Str(<<" ">>), Num(30000), Str(<<" ","W","H","O"," ">>)>>)),
                   Obj(K.name :> Num(70000) @@ K.risk_level :> Str(<<"O","r","a","n","g","e">>) @@ K.certainty :> Num(15000) @@ K.sources :> Str(<<"x">>)),
                   EmptyObj,
                   Obj(K.risk_level :> Str(<<"g","r","e","e","n">>) @@ K.name :> Str(<<>>)),
                   Null,
                   Num(50000),
                   Str(<<"S","u","g","a","r">>),
                   Arr(<<Num(10000)>>),
                   Bool(TRUE) }
      Lists == UNION {[1..n -> ItemPool] : n \in 0..MaxItems}
  IN CASE fn = "normalizeIngredients" ->
            {Undefined, NaN} \cup {Str(t) : t \in Texts} \cup
            { Str(<<"W","a","t","e","r",","," ","S","u","g","a","r","\n","A","r","t","i","f","i","c","i","a","l"," ","F","l","a","v","o","r",";"," ","S","u","g","a","r">>),
    Str(<<" "," ">>),
    Str(<<" ",","," ",";","\n",BULLET>>),
    Str(<<BULLET," ","A","q","u","a"," ",BULLET," ","G","l","y","c","e","r","i","n"," ",BULLET,"P","A","R","F","U","M">>),
    Str(<<"S","a","l","t",";","s","a","l","t",",","S","A","L","T"," ","\n"," ","s","A","l","t","\r","\n">>),
    Arr(<<Str(<<"W","a","t","e","r">>), Num(50000), Null, Str(<<"w","a","t","e","r",","," ","O","i","l">>), Arr(<<Str(<<"x">>)>>), EmptyObj, Bool(TRUE), Str(<<" ">>)>>),
    Arr(<<>>),
    Arr(<<Num(10000)>>),
    Null,
    Num(0),
    Num(70000),
    Bool(TRUE),
    Bool(FALSE),
    EmptyObj,
    Obj(K.ingredients :> Str(<<"x">>)) }
       [] fn \in {"normalizeConfidence", "normalizeCertainty"} ->
            NotNumbers \cup {Num(n) : n \in (-Margin)..(Scale + Margin)} \cup {Num(2 * Scale), Num(-Scale)}
       [] fn = "normalizeItems" ->
            NotNumbers \cup {Arr(l) : l \in Lists}
       [] fn \in {"matchGlossaryEntries", "applyRiskRules"} ->
            LET Names == { <<"w","a","t","e","r">>,
                           <<"A","q","u","a">>,
                           <<"c","a","n","e"," ","s","u","g","a","r">>,
                           <<"S","U","G","A","R">>,
                           <<"g","l","u","c","o","s","e">>,
                           <<"m","e","t","h","y","l","p","a","r","a","b","e","n">> }
                EntryPool == { Obj(K.name :> Str(<<"W","a","t","e","r">>) @@ K.synonyms :> Arr(<<Str(<<"A","q","u","a">>), Str(<<"H","2","O">>)>>)),
                               Obj(K.name :> Str(<<"A","q","u","a">>) @@ <<"d","e","s","c","r","i","p","t","i","o","n">> :> Str(<<"s","o","l","v","e","n","t">>)),
                               Obj(K.name :> Str(<<"S","u","g","a","r">>) @@ K.synonyms :> Arr(<<>>)),
                               Obj(K.name :> Str(<<"S","u","c","r","o","s","e">>) @@ K.synonyms :> Arr(<<Str(<<"s","u","g","a","r">>), Str(<<"C","a","n","e"," ","S","u","g","a","r">>)>>)) }
                RulePool == { Obj(K.pattern :> Str(<<"s","u","g","a","r">>) @@ K.risk_level :> Str(<<"Y","e","l","l","o","w">>) @@ <<"r","e","a","s","o","n">> :> Str(<<"a","d","d","e","d"," ","s","u","g","a","r">>) @@ K.applies_to :> Arr(<<Str(<<"G","l","u","c","o","s","e">>)>>)),
                              Obj(K.pattern :> Str(<<"P","a","r","a","b","e","n">>) @@ K.risk_level :> Str(<<"R","e","d">>) @@ <<"r","e","a","s","o","n">> :> Str(<<"p","r","e","s","e","r","v","a","t","i","v","e">>)),
                              Obj(K.pattern :> Str(<<>>) @@ K.risk_level :> Str(<<"U","n","k","n","o","w","n">>) @@ <<"r","e","a","s","o","n">> :> Str(<<"a","n","y">>) @@ K.applies_to :> Arr(<<>>)),
                              Obj(K.pattern :> Str(<<"z","z","z">>) @@ K.risk_level :> Str(<<"G","r","e","e","n">>) @@ <<"r","e","a","s","o","n">> :> Str(<<"s","o","l","v","e","n","t">>) @@ K.applies_to :> Arr(<<Str(<<"W","A","T","E","R">>), Str(<<"a","q","u","a">>)>>)) }
                Pool == IF fn = "applyRiskRules" THEN RulePool ELSE EntryPool
            IN { [ingredients |-> i, list |-> Arr(l)] :
                   i \in UNION {[1..n -> Names] : n \in 0..MaxItems},
                   l \in UNION {[1..n -> Pool] : n \in 0..MaxItems} }
       [] OTHER ->
            NotNumbers \cup
            { Obj(K.domain_guess :> d @@ K.ingredients :> i @@ K.sections :> sec
                    @@ K.confidence :> c @@ K.language :> l) :
                d \in {Str(S.food), Str(<<"c","a","n","d","y">>), Undefined},
                i \in {Arr(<<>>), Str(<<"W","a","t","e","r",","," ","S","u","g","a","r","\n","S","u","g","a","r">>), Arr(<<Str(<<"A","q","u","a">>), Null, Str(<<" ","a","q","u","a",";"," ","O","i","l">>)>>)},
                sec \in {Undefined, Obj(K.warnings :> Str(<<" ","h","o","t"," ">>) @@ K.claims :> Arr(<<Str(<<"a"," ">>), Str(<<" ">>), Num(30000), Str(<<"V","e","g","a","n">>)>>)), Obj(K.warnings :> Str(<<" "," ">>) @@ K.claims :> Arr(<<>>))},
                c \in {Num(9500), Num(1235), Num(15000), Str(<<"h","i","g","h">>)},
                l \in {Str(<<" ","E","N","-","u","s">>), Str(<<"n","o","t"," ","a"," ","t","a","g","!","!">>), Null} }

\* agent/ocr.ts lines 314-330
CallNormalizeIngredients ==
  /\ op = "normalizeIngredients"
  /\ pc = "start"
  /\ outcome' = Returned(normalizeIngredients(arg))
  /\ pc' = "done"
  /\ UNCHANGED <<op, response, lookups, clientVars, toolVars>>

\* agent/ocr.ts lines 356-361
CallNormalizeConfidence ==
  /\ op = "normalizeConfidence"
  /\ pc = "start"
  /\ outcome' = Returned(normalizeConfidence(arg))
  /\ pc' = "done"
  /\ UNCHANGED <<op, response, lookups, clientVars, toolVars>>

\* agent/explain.ts lines 144-155
CallNormalizeCertainty ==
  /\ op = "normalizeCertainty"
  /\ pc = "start"
  /\ outcome' = Returned(normalizeCertainty(arg))
  /\ pc' = "done"
  /\ UNCHANGED <<op, response, lookups, clientVars, toolVars>>

\* agent/explain.ts lines 157-185
CallNormalizeItems ==
  /\ op = "normalizeItems"
  /\ pc = "start"
  /\ outcome' = Returned(normalizeItems(arg))
  /\ pc' = "done"
  /\ UNCHANGED <<op, response, lookups, clientVars, toolVars>>

\* agent/ocr.ts lines 512-524: the normalization of a parsed extraction
NormalizeExtraction ==
  /\ op = "normalizeExtraction"
  /\ pc = "start"
  /\ outcome' = Returned(NormalizeOCR(arg))
  /\ pc' = "done"
  /\ UNCHANGED <<op, response, lookups, clientVars, toolVars>>

\* agent/explain.ts lines 68-86
CallMatchGlossaryEntries ==
  /\ op = "matchGlossaryEntries"
  /\ pc = "start"
  /\ LET matches == matchGlossaryEntries(arg.ingredients, arg.list)
     IN outcome' = IF matches.ok THEN Returned(matches.v) ELSE Thrown(TypeError)
  /\ pc' = "done"
  /\ UNCHANGED <<op, response, lookups, clientVars, toolVars>>

\* agent/explain.ts lines 88-106
CallApplyRiskRules ==
  /\ op = "applyRiskRules"
  /\ pc = "start"
  /\ LET result == applyRiskRules(arg.ingredients, arg.list)
     IN outcome' = IF result.ok THEN Returned(result.v) ELSE Thrown(TypeError)
  /\ pc' = "done"
  /\ UNCHANGED <<op, response, lookups, clientVars, toolVars>>

InitPure ==
  /\ op \in {"normalizeIngredients", "normalizeConfidence", "normalizeCertainty",
             "normalizeItems", "normalizeExtraction", "matchGlossaryEntries",
             "applyRiskRules"}
  /\ arg \in NormalizerInputs(op)
  /\ NoClientCall
  /\ NothingSent
  /\ ModulesLoaded
  /\ url = <<>>

NextPure ==
  \/ CallNormalizeIngredients
  \/ CallNormalizeConfidence
  \/ CallNormalizeCertainty
  \/ CallNormalizeItems
  \/ NormalizeExtraction
  \/ CallMatchGlossaryEntries
  \/ CallApplyRiskRules

SpecPure == InitPure /\ [][NextPure]_vars

\* ------------------------------------------------------------------------
\* Results handed to callers: which arrays and objects they hold
\* ------------------------------------------------------------------------
\* calls that return in one run of the process
MaxCalls == 2

\* ocr.ts lines 381, 502 and 509, explain.ts lines 191, 363 and 371: the
\* call returns `{ ...DEFAULT_RESULT }`, an object holding the list and the
\* object that DEFAULT_RESULT holds
SpreadsDefault(fn, e, payload) ==
  IF fn = "analyzeLabel"
  THEN \/ OcrKeyMissing(e)
       \/ extractMessageContent(payload) = <<>>
       \/ ~JSONParse(extractMessageContent(payload)).ok
  ELSE \/ ExplainKeyMissing(e)
       \/ ExplainMessageContent(payload) = <<>>
       \/ ~JSONParse(ExplainMessageContent(payload)).ok

\* the result of call n: the parts of DEFAULT_RESULT (call 0 is the load of
\* the module) or the parts the normalizers have built for this call
Hold(fn, parts, e, payload, value) ==
  LET n == Len(results) + 1
  IN IF SpreadsDefault(fn, e, payload)
     THEN /\ results' = Append(results, [fn |-> fn, refs |-> [p \in parts |-> <<0, p>>]])
          /\ UNCHANGED heap
     ELSE /\ results' = Append(results, [fn |-> fn, refs |-> [p \in parts |-> <<n, p>>]])
          /\ heap' = [a \in {<<n, p>> : p \in parts} |-> value[a[2]]] @@ heap

\* what an action on results leaves alone
callVars == <<op, pc, response, outcome, lookups, url, now, timeout, controller, arg>>

\* agent/ocr.ts lines 371-525: a call of analyzeLabel returns
AnalyzeLabelReturns ==
  /\ op = "callers"
  /\ Len(results) < MaxCalls
  /\ \E payload \in OCRPayloads :
       Hold("analyzeLabel", {"ingredients", "sections"}, env, payload,
            IF OcrKeyMissing(env) THEN OCR_DEFAULT_RESULT ELSE OCRResultOf(payload))
  /\ UNCHANGED <<callVars, clientVars>>

\* agent/explain.ts lines 187-384: a call of explainIngredients returns
ExplainIngredientsReturns ==
  /\ op = "callers"
  /\ Len(results) < MaxCalls
  /\ \E payload \in ExplainPayloads :
       LET ended == IF ExplainKeyMissing(env) THEN Returned(EXPLAIN_DEFAULT_RESULT)
                    ELSE ExplainSuccessOutcome(payload, env)
       IN /\ ended.kind = "returned"
          /\ Hold("explainIngredients", {"items"}, env, payload, ended.value)
  /\ UNCHANGED <<callVars, clientVars>>

\* a caller changes a result it was handed: result.ingredients.push("x"),
\* result.sections.warnings = "x" or result.items.push(item)
CallerMutates ==
  /\ op = "callers"
  /\ \E k \in 1..Len(results) : \E p \in DOMAIN results[k].refs :
       LET a == results[k].refs[p]
           added == IF p = "items" THEN ItemOf(EmptyObj) ELSE <<"x">>
       IN IF p = "sections"
          THEN /\ heap[a] # ("warnings" :> added) @@ heap[a]
               /\ heap' = [heap EXCEPT ![a] = ("warnings" :> added) @@ @]
          ELSE /\ added \notin Range(heap[a])
               /\ heap' = [heap EXCEPT ![a] = Append(@, added)]
  /\ UNCHANGED <<results, callVars, clientVars>>

InitShare ==
  /\ op = "callers"
  /\ env \in {e \in Envs : e.INTERFAZE_EXPLAIN_MODEL = <<>> /\ e.INTERFAZE_OCR_MODEL = <<>>}
  /\ files = [f \in DocFiles |-> MissingFile]
  /\ image_url = Undefined
  /\ data = OCR_DEFAULT_RESULT
  /\ NothingSent
  /\ ModulesLoaded
  /\ url = <<>>
  /\ arg = Undefined

NextShare ==
  \/ AnalyzeLabelReturns
  \/ ExplainIngredientsReturns
  \/ CallerMutates

SpecShare == InitShare /\ [][NextShare]_vars

\* ------------------------------------------------------------------------
\* Properties
\* ------------------------------------------------------------------------
Done == pc = "done"
LastReceived == received[Len(received)]
ValidCredentialedAnalyze ==
  /\ op = "analyzeLabel"
  /\ image_url.t = "str" /\ image_url.s # <<>>
  /\ env.INTERFAZE_API_KEY # ""

\* C1: in an analyzeLabel call with a valid image reference and a
\* credential, the first request sent is the json_schema one, a second
\* request is sent exactly when the first response is non-OK with status 400
\* or 422, that second request uses json_object, and there is never a third.
C1_SchemaFirstThenOneFallback ==
  ValidCredentialedAnalyze =>
    /\ Len(requests) <= 2
    /\ pc # "start" => Len(requests) >= 1 /\ requests[1].format = "json_schema"
    /\ Len(requests) = 2 => requests[2].format = "json_object"
    /\ Len(received) >= 1 =>
         (Len(requests) = 2 <=>
            (received[1].status \notin 200..299 /\ received[1].status \in {400, 422}))

C1_Witness ==
  /\ ValidCredentialedAnalyze
  /\ Done
  /\ Len(requests) = 2
  /\ received[1].status = 422
  /\ outcome.kind = "returned"

\* C2: an analyzeLabel call that received a response ends in a raised error,
\* and no result, exactly when the last response it received is non-OK; a
\* first non-OK response other than 400/422 raises without a retry; the
\* error carries the status and the body of the last response.
C2_RaisesExactlyOnLastNonOk ==
  (op = "analyzeLabel" /\ Len(received) >= 1) =>
    /\ (received[1].status \notin 200..299 /\ received[1].status \notin {400, 422}) =>
         (Done /\ Len(requests) = 1 /\ outcome.kind = "thrown")
    /\ Done =>
         /\ outcome.kind \in {"returned", "thrown"}
         /\ outcome.kind = "thrown" <=> LastReceived.status \notin 200..299
         /\ outcome.kind = "thrown" =>
              outcome.error = [name |-> "Error", message |-> "analyzeLabel",
                               status |-> LastReceived.status,
                               errText |-> LastReceived.errText]

C2_Witness ==
  /\ op = "analyzeLabel"
  /\ Done
  /\ Len(received) = 2
  /\ received[1].status = 400
  /\ received[2].status = 500
  /\ received[1].errText # received[2].errText
  /\ outcome.kind = "thrown"

\* C3: explainIngredients requests the candidates in list order, one
\* request each, and the first candidate that answers OK ends the loop and
\* supplies the result: nothing is requested after it and the call returns
\* instead of raising.
C3_FirstOkCandidateSuppliesResult ==
  op = "explainIngredients" =>
    /\ \A i \in 1..Len(requests) : requests[i].model = modelsToTry(env)[i]
    /\ \A i \in 1..Len(received) :
         received[i].status \in 200..299 =>
           (Len(requests) = i /\ Done /\ outcome.kind = "returned")

\* C4: no candidate is requested after the default candidate interfaze-beta
\* has failed, whatever the configured models are.
C4_DefaultFailureIsTerminal ==
  op = "explainIngredients" =>
    \A i \in 1..Len(received) :
      (requests[i].model = DEFAULT_MODEL /\ received[i].status \notin 200..299) =>
        Len(requests) = i

\* C5: when every candidate answered non-OK, explainIngredients raises, and
\* the error carries the status and the body of the last candidate tried.
C5_AllFailedRaisesLastError ==
  (/\ op = "explainIngredients"
   /\ Done
   /\ Len(received) >= 1
   /\ \A i \in 1..Len(received) : received[i].status \notin 200..299) =>
    /\ Len(received) = Len(modelsToTry(env))
    /\ outcome = [kind |-> "thrown",
                  error |-> [name |-> "Error", message |-> "explainIngredients",
                             status |-> LastReceived.status,
                             errText |-> LastReceived.errText]]

C5_Witness ==
  /\ op = "explainIngredients"
  /\ Done
  /\ Len(received) = 3
  /\ \A i \in 1..3 : received[i].status \notin 200..299
  /\ received[1].status # received[3].status
  /\ received[1].errText # received[3].errText
  /\ outcome.kind = "thrown"

\* C6: without INTERFAZE_API_KEY, analyzeLabel on a non-empty string
\* reference sends nothing to the provider and returns the fixed default
\* result (mixed, no ingredients, no sections, confidence 0, en).
C6_NoKeyGivesDefaultExtraction ==
  (/\ op = "analyzeLabel"
   /\ image_url.t = "str" /\ image_url.s # <<>>
   /\ env.INTERFAZE_API_KEY = "") =>
    /\ requests = <<>>
    /\ Done =>
         outcome = [kind |-> "returned",
                    value |-> [domain_guess |-> <<"m", "i", "x", "e", "d">>,
                               ingredients |-> <<>>, sections |-> <<>>,
                               confidence |-> 0, language |-> <<"e", "n">>]]
    /\ ~Done => outcome.kind = "pending"

C6_Witness ==
  /\ op = "analyzeLabel"
  /\ image_url.t = "str" /\ image_url.s # <<>>
  /\ env.INTERFAZE_API_KEY = ""
  /\ Done
  /\ outcome.kind = "returned"

\* C7: without a credential, explainIngredients reads no local document,
\* makes no external lookup and no model request, and returns the fixed
\* default Explanation Result for every input.
C7_NoKeyGivesDefaultExplanation ==
  (op = "explainIngredients" /\ env.INTERFAZE_API_KEY = "") =>
    /\ fsReads = <<>> /\ pendingReads = {}
    /\ lookups = <<>>
    /\ requests = <<>>
    /\ Done => (/\ outcome.kind = "returned"
                /\ outcome.value.summary = DEFAULT_SUMMARY
                /\ outcome.value.items = <<>>
                /\ outcome.value.disclaimer = DEFAULT_DISCLAIMER)
    /\ ~Done => outcome.kind = "pending"

C7_Witness ==
  /\ op = "explainIngredients"
  /\ env.INTERFAZE_API_KEY = ""
  /\ env.WEB_FETCH_ENABLED # <<>>
  /\ Len(data.ingredients) > 0
  /\ Done
  /\ outcome.kind = "returned"

\* C8: analyzeLabel on an empty or non-string reference raises the
\* invalid-input error with no network activity, with or without a
\* credential.
C8_InvalidInputRaisesFirst ==
  (op = "analyzeLabel" /\ (image_url.t # "str" \/ image_url = Str(<<>>))) =>
    /\ requests = <<>> /\ received = <<>>
    /\ Done => outcome = [kind |-> "thrown",
                          error |-> [name |-> "Error",
                                     message |-> "analyzeLabel: image_url is required",
                                     status |-> 0, errText |-> ""]]
    /\ ~Done => outcome.kind = "pending"

C8_Witness ==
  /\ op = "analyzeLabel"
  /\ image_url = Str(<<>>)
  /\ env.INTERFAZE_API_KEY = ""
  /\ Done
  /\ outcome.kind = "thrown"

\* C9: whatever payload an OK response carries, explainIngredients returns
\* an Explanation Result and never raises.
C9_OkResponseNeverRaises ==
  (op = "explainIngredients" /\ Done /\ Len(received) >= 1
     /\ LastReceived.status \in 200..299) =>
    outcome.kind = "returned"

\* C10: for every OK response analyzeLabel returns: the fixed default
\* result when the extracted text is empty or is not JSON, and otherwise a
\* result with the five fields, each in its normalized range.
IsDefaultExtraction(v) ==
  v = [domain_guess |-> <<"m", "i", "x", "e", "d">>, ingredients |-> <<>>,
       sections |-> <<>>, confidence |-> 0, language |-> <<"e", "n">>]

C10_OkResponseAlwaysNormalized ==
  (op = "analyzeLabel" /\ Done /\ Len(received) >= 1
     /\ LastReceived.status \in 200..299) =>
    /\ outcome.kind = "returned"
    /\ DOMAIN outcome.value =
         {"domain_guess", "ingredients", "sections", "confidence", "language"}
    /\ outcome.value.domain_guess \in {S.food, S.drug, S.cosmetic, S.mixed}
    /\ outcome.value.confidence \in 0..Scale
    /\ \A k \in 1..Len(outcome.value.ingredients) : outcome.value.ingredients[k] # <<>>
    /\ DOMAIN outcome.value.sections \subseteq {"warnings", "claims"}
    /\ outcome.value.language # <<>>
    /\ LET text == extractMessageContent(LastReceived.payload)
       IN (text = <<>> \/ ~JSONParse(text).ok) => IsDefaultExtraction(outcome.value)

C10_Witness ==
  /\ op = "analyzeLabel"
  /\ Done
  /\ Len(received) >= 1
  /\ LastReceived.status \in 200..299
  /\ extractMessageContent(LastReceived.payload) = <<"n", "u", "l", "l">>
  /\ outcome.kind = "returned"

\* C11: every Extraction Result returned by analyzeLabel with no ingredient
\* has confidence at most 0.2 (an upstream 0.95 becomes 0.2), and a result
\* with an ingredient keeps the normalized upstream confidence.
C11_EmptyIngredientsCapConfidence ==
  (op = "analyzeLabel" /\ Done /\ outcome.kind = "returned") =>
    /\ Len(outcome.value.ingredients) = 0 => outcome.value.confidence <= 2000
    /\ Len(received) >= 1 =>
         LET parsed == JSONParse(extractMessageContent(LastReceived.payload))
             upstream == IF parsed.ok
                         THEN normalizeConfidence(OptGet(parsed.v, K.confidence))
                         ELSE 0
         IN IF Len(outcome.value.ingredients) = 0
            THEN outcome.value.confidence = (IF upstream > 2000 THEN 2000 ELSE upstream)
            ELSE outcome.value.confidence = upstream

C11_Witness ==
  /\ op = "analyzeLabel"
  /\ Done
  /\ outcome.kind = "returned"
  /\ outcome.value.ingredients = <<>>
  /\ outcome.value.confidence = 2000
  /\ Len(received) >= 1
  /\ LET parsed == JSONParse(extractMessageContent(LastReceived.payload))
     IN parsed.ok /\ normalizeConfidence(OptGet(parsed.v, K.confidence)) = 9500

\* C12: every Explanation Result returned by explainIngredients has a
\* non-empty summary and a non-empty disclaimer.
C12_SummaryAndDisclaimerNonEmpty ==
  (op = "explainIngredients" /\ Done /\ outcome.kind = "returned") =>
    /\ outcome.value.summary # <<>>
    /\ outcome.value.disclaimer # <<>>

\* C13: a result returned by one analyzeLabel or explainIngredients call,
\* the default results included, shares no list and no object with the
\* result of another call.
C13_ResultsShareNothing ==
  \A i, j \in 1..Len(results) :
    i < j => \A p \in DOMAIN results[i].refs, q \in DOMAIN results[j].refs :
               results[i].refs[p] # results[j].refs[q]

\* C18: fetch_json raises without any network call for every URL whose
\* hostname is neither openfoodfacts.org or openbeautyfacts.org nor a
\* dot-separated subdomain of one of them; for an allowed hostname such as
\* world.openfoodfacts.org the network call is made.
C18_ForeignHostRaisesWithoutNetworkCall ==
  op = "fetch_json" =>
    LET parsed == ParseURL(url)
        labels == Split(parsed.hostname, {"."})
        n == Len(labels)
        allowed == /\ parsed.ok
                   /\ n >= 2
                   /\ labels[n] = <<"o","r","g">>
                   /\ labels[n - 1] \in {<<"o","p","e","n","f","o","o","d","f","a","c","t","s">>, <<"o","p","e","n","b","e","a","u","t","y","f","a","c","t","s">>}
    IN IF allowed
       THEN pc # "start" =>
              /\ lookups = <<url>>
              /\ outcome # Thrown(FetchJsonError("fetch_json: URL not allowed", 0))
       ELSE /\ lookups = <<>>
            /\ pc \in {"start", "done"}
            /\ pc = "done" => outcome = Thrown(FetchJsonError("fetch_json: URL not allowed", 0))

C18_Witness ==
  /\ op = "fetch_json"
  /\ pc = "done"
  /\ ParseURL(url).hostname = <<"e","v","i","l","o","p","e","n","f","o","o","d","f","a","c","t","s",".","o","r","g">>
  /\ outcome.kind = "thrown"
  /\ lookups = <<>>

\* C19: fetch_json returns a value only when the response reports a success
\* status and a JSON content type, and the value is the parsed body; a
\* non-OK status raises, and so does an OK response whose content type is
\* missing or not JSON, such as HTTP 200 with text/html.
C19_ReturnsOnlyOkJson ==
  (op = "fetch_json" /\ pc = "done") =>
    LET mediaType == IF response.contentType.t = "str"
                     THEN Trim(Split(response.contentType.s, {";"})[1])
                     ELSE <<>>
    IN /\ outcome.kind \in {"returned", "thrown"}
       /\ outcome.kind = "returned" =>
            /\ response.status \in 200..299
            /\ mediaType = <<"a","p","p","l","i","c","a","t","i","o","n","/","j","s","o","n">>
            /\ JSONParse(response.body).ok
            /\ outcome.value = JSONParse(response.body).v
       /\ (lookups # <<>> /\ response # NoResponse /\ response.status \notin 200..299) =>
            outcome = Thrown(FetchJsonError("fetch_json: HTTP", response.status))
       /\ (lookups # <<>> /\ response # NoResponse /\ response.status \in 200..299
             /\ mediaType # <<"a","p","p","l","i","c","a","t","i","o","n","/","j","s","o","n">>) =>
            outcome.kind = "thrown"

C19_Witness ==
  /\ op = "fetch_json"
  /\ pc = "done"
  /\ response.status = 200
  /\ response.contentType = Str(<<"t","e","x","t","/","h","t","m","l">>)
  /\ outcome = Thrown(FetchJsonError("fetch_json: Response is not JSON", 0))

\* C20: a fetch_json call still waiting 6 seconds after it started can only
\* end, and ends with the timeout error, never with a result; a call that
\* ends before the deadline does not end with the timeout error; and no call
\* ends with its timer still armed.
C20_TimeoutAtDeadlineTimerCleared ==
  [][op = "fetch_json" =>
       LET timedOut == Thrown(FetchJsonError("fetch_json: Request timed out after 6s", 0))
       IN /\ (pc \in {"fetch", "json"} /\ now >= TIMEOUT_MS) =>
               (pc' = "done" /\ outcome' = timedOut)
          /\ (pc' = "done" /\ now < TIMEOUT_MS) => outcome' # timedOut
          /\ pc' = "done" => ~timeout'.armed]_vars

C20_Witness ==
  /\ op = "fetch_json"
  /\ pc = "done"
  /\ now = TIMEOUT_MS
  /\ response.status = 200
  /\ controller.aborted
  /\ ~timeout.armed
  /\ outcome = Thrown(FetchJsonError("fetch_json: Request timed out after 6s", 0))

\* C14: for every input, normalizeIngredients returns a list without empty
\* string and without two equal entries, whose entries are exactly the
\* trimmed lowercased fragments between newline, bullet, semicolon and comma
\* of the strings of the input, in the order of their first occurrence;
\* "Water, Sugar\nArtificial Flavor; Sugar" gives water, sugar, artificial
\* flavor.
C14_IngredientsAreUniqueTrimmedFragments ==
  (op = "normalizeIngredients" /\ pc = "done") =>
    LET out == outcome.value
        Seps == {"\n", BULLET, ";", ","}
        entries == IF IsString(arg) THEN <<arg>> ELSE IF IsArray(arg) THEN arg.a ELSE <<>>
        IsFragment(e, i, j) ==
          /\ i <= j
          /\ \A k \in i..j : e[k] \notin Seps
          /\ i = 1 \/ e[i - 1] \in Seps
          /\ j = Len(e) \/ e[j + 1] \in Seps
        FragmentsOf(m) ==
          LET e == entries[m].s
          IN { <<m * 1000 + p[1], ToLowerCase(Trim(SubSeq(e, p[1], p[2])))>> :
                 p \in {q \in (1..Len(e)) \X (1..Len(e)) : IsFragment(e, q[1], q[2])} }
        Fragments == { f \in UNION {FragmentsOf(m) : m \in {k \in 1..Len(entries) : IsString(entries[k])}} :
                         f[2] # <<>> }
        FirstSeen(t) == CHOOSE n \in {f[1] : f \in Fragments} :
                          /\ <<n, t>> \in Fragments
                          /\ \A f \in Fragments : f[2] = t => n <= f[1]
    IN /\ {out[k] : k \in 1..Len(out)} = {f[2] : f \in Fragments}
       /\ \A k \in 1..Len(out) :
            /\ out[k] # <<>>
            /\ out[k] = Trim(out[k])
            /\ out[k] = ToLowerCase(out[k])
       /\ \A a, b \in 1..Len(out) : a < b => out[a] # out[b] /\ FirstSeen(out[a]) < FirstSeen(out[b])
       /\ arg = Str(<<"W","a","t","e","r",","," ","S","u","g","a","r","\n","A","r","t","i","f","i","c","i","a","l"," ","F","l","a","v","o","r",";"," ","S","u","g","a","r">>) => out = <<<<"w","a","t","e","r">>, <<"s","u","g","a","r">>, <<"a","r","t","i","f","i","c","i","a","l"," ","f","l","a","v","o","r">>>>

C14_Witness ==
  /\ op = "normalizeIngredients"
  /\ pc = "done"
  /\ arg = Str(<<"W","a","t","e","r",","," ","S","u","g","a","r","\n","A","r","t","i","f","i","c","i","a","l"," ","F","l","a","v","o","r",";"," ","S","u","g","a","r">>)
  /\ outcome = Returned(<<<<"w","a","t","e","r">>, <<"s","u","g","a","r">>, <<"a","r","t","i","f","i","c","i","a","l"," ","f","l","a","v","o","r">>>>)

\* C15: normalizing the value of an already normalized Extraction Result
\* yields the same result, and normalizeItems on an already normalized
\* Explanation Item yields the same item.
C15_NormalizationIdempotent ==
  LET Strs(seq) == MapSeq(Str, seq)
      SectionsValue(sec) ==
        Obj((IF "warnings" \in DOMAIN sec THEN K.warnings :> Str(sec["warnings"]) ELSE <<>>)
              @@ (IF "claims" \in DOMAIN sec THEN K.claims :> Arr(Strs(sec["claims"])) ELSE <<>>))
      ResultValue(r) ==
        Obj(K.domain_guess :> Str(r.domain_guess) @@ K.ingredients :> Arr(Strs(r.ingredients))
              @@ K.sections :> SectionsValue(r.sections) @@ K.confidence :> Num(r.confidence)
              @@ K.language :> Str(r.language))
      ItemValue(i) ==
        Obj(K.name :> Str(i.name) @@ K.function :> Str(i.function)
              @@ K.risk_level :> Str(i.risk_level) @@ K.why :> Str(i.why)
              @@ K.certainty :> Num(i.certainty) @@ K.sources :> Arr(Strs(i.sources)))
  IN /\ (op = "normalizeExtraction" /\ pc = "done") =>
          NormalizeOCR(ResultValue(outcome.value)) = outcome.value
     /\ (op = "normalizeItems" /\ pc = "done") =>
          \A k \in 1..Len(outcome.value) :
            normalizeItems(Arr(<<ItemValue(outcome.value[k])>>)) = <<outcome.value[k]>>

C15_Witness ==
  /\ op = "normalizeExtraction"
  /\ pc = "done"
  /\ OptGet(arg, K.confidence) = Num(9500)
  /\ OptGet(arg, K.language) = Str(<<" ","E","N","-","u","s">>)
  /\ outcome.value.ingredients = <<>>
  /\ outcome.value.confidence = 2000
  /\ outcome.value.language = <<"e","n","-","u","s">>
  /\ "claims" \in DOMAIN outcome.value.sections

\* C16: normalizeConfidence and normalizeCertainty return a number in [0,1]
\* with at most 3 decimals: 0 for a non-number, NaN or a negative number, 1
\* for a number above 1, the input rounded to 3 decimals otherwise; both
\* give the same output for the same input.
C16_ClampedAndRoundedAlike ==
  (op \in {"normalizeConfidence", "normalizeCertainty"} /\ pc = "done") =>
    LET out == outcome.value
    IN /\ out \in 0..Scale
       /\ out % (Scale \div 1000) = 0
       /\ arg.t # "num" => out = 0
       /\ arg.t = "num" =>
            /\ arg.n < 0 => out = 0
            /\ arg.n > Scale => out = Scale
            /\ arg.n \in 0..Scale => 2 * (out - arg.n) \in (-(Scale \div 1000))..(Scale \div 1000)
       /\ out = normalizeConfidence(arg)
       /\ out = normalizeCertainty(arg)

C16_Witness ==
  /\ op = "normalizeCertainty"
  /\ pc = "done"
  /\ arg = Num(Scale + Margin)
  /\ outcome = Returned(Scale)

C29_FirstNameOrSynonymMatch ==
  (op = "matchGlossaryEntries" /\ pc = "done") =>
    LET entries == arg.list.a
        Synonyms(e) == IF K.synonyms \in DOMAIN e.f THEN e.f[K.synonyms].a ELSE <<>>
        Qualifies(i, e) ==
          \/ ToLowerCase(e.f[K.name].s) = ToLowerCase(i)
          \/ \E n \in 1..Len(Synonyms(e)) : ToLowerCase(Synonyms(e)[n].s) = ToLowerCase(i)
    IN /\ outcome.kind = "returned"
       /\ DOMAIN outcome.value \subseteq Range(arg.ingredients)
       /\ \A i \in Range(arg.ingredients) :
            /\ i \in DOMAIN outcome.value <=> \E k \in 1..Len(entries) : Qualifies(i, entries[k])
            /\ i \in DOMAIN outcome.value =>
                 \E k \in 1..Len(entries) :
                   /\ outcome.value[i] = entries[k]
                   /\ Qualifies(i, entries[k])
                   /\ \A j \in 1..(k - 1) : ~Qualifies(i, entries[j])

C29_Witness ==
  /\ op = "matchGlossaryEntries"
  /\ pc = "done"
  /\ arg.ingredients = <<<<"A","q","u","a">>, <<"g","l","u","c","o","s","e">>>>
  /\ Len(arg.list.a) = 2
  /\ OptGet(arg.list.a[1], K.name) = Str(<<"W","a","t","e","r">>)
  /\ OptGet(arg.list.a[2], K.name) = Str(<<"A","q","u","a">>)
  /\ DOMAIN outcome.value = {<<"A","q","u","a">>}
  /\ outcome.value[<<"A","q","u","a">>] = arg.list.a[1]

\* C30: applyRiskRules maps each ingredient to the list, in rule order, of
\* the rules whose applies_to holds the ingredient (equal without regard to
\* case) or whose pattern, without regard to case, is a substring of the
\* ingredient; an ingredient without such a rule has no key, so no key maps
\* to an empty list.
C30_RulesByAppliesToOrPattern ==
  (op = "applyRiskRules" /\ pc = "done") =>
    LET ruleList == arg.list.a
        Named(r) == IF K.applies_to \in DOMAIN r.f THEN r.f[K.applies_to].a ELSE <<>>
        IsSubstring(p, t) == \E a \in 0..Len(t) : \E b \in a..Len(t) : SubSeq(t, a + 1, b) = p
        Qualifies(i, r) ==
          \/ \E n \in 1..Len(Named(r)) : ToLowerCase(Named(r)[n].s) = ToLowerCase(i)
          \/ IsSubstring(ToLowerCase(r.f[K.pattern].s), ToLowerCase(i))
        Expected(i) == Filter(LAMBDA r : Qualifies(i, r), ruleList)
    IN /\ outcome.kind = "returned"
       /\ DOMAIN outcome.value = {i \in Range(arg.ingredients) : Expected(i) # <<>>}
       /\ \A i \in DOMAIN outcome.value :
            outcome.value[i] = Expected(i) /\ outcome.value[i] # <<>>

C30_Witness ==
  /\ op = "applyRiskRules"
  /\ pc = "done"
  /\ arg.ingredients = <<<<"g","l","u","c","o","s","e">>, <<"w","a","t","e","r">>>>
  /\ Len(arg.list.a) = 2
  /\ OptGet(arg.list.a[1], K.pattern) = Str(<<"s","u","g","a","r">>)
  /\ OptGet(arg.list.a[2], K.pattern) = Str(<<"P","a","r","a","b","e","n">>)
  /\ DOMAIN outcome.value = {<<"g","l","u","c","o","s","e">>}
  /\ outcome.value[<<"g","l","u","c","o","s","e">>] = <<arg.list.a[1]>>

\* C27: the candidate model list of explainIngredients has no duplicate and
\* no empty identifier, one to three entries, always holds the default
\* interfaze-beta, and keeps the order configured explanation model,
\* configured OCR model, default, each at its first occurrence; the requests
\* of a call follow this list.
C27_CandidatesUniqueOrderedWithDefault ==
  op = "explainIngredients" =>
    LET list == modelsToTry(env)
        configured == <<Trim(env.INTERFAZE_EXPLAIN_MODEL), Trim(env.INTERFAZE_OCR_MODEL),
                        <<"i","n","t","e","r","f","a","z","e","-","b","e","t","a">>>>
        Rank(m) == CHOOSE k \in 1..3 : configured[k] = m /\ \A j \in 1..(k - 1) : configured[j] # m
    IN /\ Len(list) \in 1..3
       /\ \A a \in 1..Len(list) : list[a] # <<>>
       /\ \A a, b \in 1..Len(list) : a < b => list[a] # list[b]
       /\ {list[a] : a \in 1..Len(list)} = {configured[k] : k \in 1..3} \ {<<>>}
       /\ \A a, b \in 1..Len(list) : a < b => Rank(list[a]) < Rank(list[b])
       /\ Len(requests) <= Len(list)
       /\ \A i \in 1..Len(requests) : requests[i].model = list[i]

C27_Witness ==
  /\ op = "explainIngredients"
  /\ env.INTERFAZE_EXPLAIN_MODEL = <<" ","m","o","d","e","l","-","a"," ">>
  /\ env.INTERFAZE_OCR_MODEL = <<"m","o","d","e","l","-","a">>
  /\ Len(requests) = 2
  /\ requests[1].model = <<"m","o","d","e","l","-","a">>
  /\ requests[2].model = <<"i","n","t","e","r","f","a","z","e","-","b","e","t","a">>
  /\ pc = "done"

\* C21: in one explainIngredients call, lookups are issued only when the
\* external-fetch flag is enabled and there is an ingredient; their number
\* never exceeds the lesser of the ingredient count and the configured cap
\* (3 when OFF_FETCH_LIMIT is unset); the k-th lookup is the one of the k-th
\* ingredient.
C21_LookupsWithinFlagAndCap ==
  op = "explainIngredients" =>
    LET count == Len(data.ingredients)
        text == env.OFF_FETCH_LIMIT
        cap == IF text = <<>> THEN 3 ELSE IntOf(text, 1, Len(text))
        capIsNumber == \A k \in 1..Len(text) : IsDigit(text[k])
    IN /\ lookups # <<>> =>
            /\ ToLowerCase(env.WEB_FETCH_ENABLED) = <<"t","r","u","e">>
            /\ count >= 1
       /\ capIsNumber => Len(lookups) <= (IF count < cap THEN count ELSE cap)
       /\ Len(lookups) <= count
       /\ \A k \in 1..Len(lookups) :
            lookups[k] = LookupUrl(data.ingredients[k], data.domain_guess)

C21_Witness ==
  /\ op = "explainIngredients"
  /\ pc = "done"
  /\ Len(data.ingredients) = 4
  /\ env.OFF_FETCH_LIMIT = <<>>
  /\ Len(lookups) = 3
  /\ outcome.kind = "returned"

\* C22: when an external lookup of an explainIngredients call has failed or
\* timed out, the call still looks up every selected ingredient, the records
\* are exactly the successful lookups in ingredient order, the model request
\* is made, and the call raises only on the answer of the model.
C22_FailedLookupAbortsNothing ==
  (/\ op = "explainIngredients"
   /\ \E k \in 1..Len(settled) : settled[k] \in {"http_error", "not_json", "timeout"}) =>
    LET count == Len(data.ingredients)
        text == env.OFF_FETCH_LIMIT
        cap == IF text = <<>> THEN 3 ELSE IntOf(text, 1, Len(text))
        selected == IF count < cap THEN count ELSE cap
        host == IF data.domain_guess = <<"c","o","s","m","e","t","i","c">>
                THEN <<"w","o","r","l","d",".","o","p","e","n","b","e","a","u","t","y","f","a","c","t","s",".","o","r","g">>
                ELSE <<"w","o","r","l","d",".","o","p","e","n","f","o","o","d","f","a","c","t","s",".","o","r","g">>
        successes == Filter(LAMBDA k : settled[k] = "json", [k \in 1..Len(settled) |-> k])
    IN /\ pc \in {"lookup", "model", "done"}
       /\ records = MapSeq(LAMBDA k : [ingredient |-> data.ingredients[k], source |-> host], successes)
       /\ pc \in {"model", "done"} =>
            /\ Len(settled) = selected
            /\ Len(lookups) = selected
            /\ requests # <<>>
            /\ requests[1].input.external_records = records

C26_ReadsThenLookupsOneByOneThenModel ==
  [][op = "explainIngredients" =>
       /\ (lookups' # lookups \/ requests' # requests) =>
            /\ pendingReads' = {}
            /\ fsReads' = <<"mini_glossary.json", "risk_rules.json">>
            /\ glossary' # Undefined /\ rules' # Undefined
       /\ lookups' # lookups =>
            /\ Len(settled') = Len(lookups)
            /\ lookups' = Append(lookups, LookupUrl(data.ingredients[Len(lookups) + 1], data.domain_guess))
            /\ requests = <<>> /\ requests' = <<>>
       /\ Len(lookups') - Len(settled') \in {0, 1}
       /\ requests' # <<>> => (Len(settled') = Len(lookups') /\ lookups' = lookups)]_vars

C26_Witness ==
  /\ op = "explainIngredients"
  /\ pc = "model"
  /\ Len(lookups) = 3
  /\ Len(settled) = 3
  /\ settled[2] = "timeout"
  /\ Len(requests) = 1
  /\ pendingReads = {}

\* C28: every lookup issued by explainIngredients targets
\* world.openbeautyfacts.org when the domain guess is cosmetic and
\* world.openfoodfacts.org otherwise; the URL built for any ingredient
\* passes the whitelist of fetch_json, so no iteration of the loop is
\* skipped as not allowed. Every lookup is in flight in the state that
\* follows its issue, which is where it is examined.
C28_LookupsTargetWhitelistedProvider ==
  op = "explainIngredients" =>
    LET host == IF data.domain_guess = <<"c","o","s","m","e","t","i","c">>
                THEN <<"w","o","r","l","d",".","o","p","e","n","b","e","a","u","t","y","f","a","c","t","s",".","o","r","g">>
                ELSE <<"w","o","r","l","d",".","o","p","e","n","f","o","o","d","f","a","c","t","s",".","o","r","g">>
    IN /\ pc = "lookup" =>
            /\ Len(lookups) = index + 1
            /\ LET target == ParseURL(lookups[Len(lookups)])
               IN target.ok /\ target.hostname = host
            /\ isWhitelisted(lookups[Len(lookups)])
       /\ pc = "read" =>
            \A k \in 1..Len(data.ingredients) :
              ~EncodeThrows(data.ingredients[k]) =>
                isWhitelisted(LookupUrl(data.ingredients[k], data.domain_guess))

C28_Witness ==
  /\ op = "explainIngredients"
  /\ pc = "lookup"
  /\ index = 1
  /\ Len(lookups) = 2
  /\ data.domain_guess = <<"c","o","s","m","e","t","i","c">>
  /\ data.ingredients[2] = <<"@","e","v","i","l",".","c","o","m","/","?","x","=","1","&","y">>
  /\ ParseURL(lookups[2]).hostname = <<"w","o","r","l","d",".","o","p","e","n","b","e","a","u","t","y","f","a","c","t","s",".","o","r","g">>

\* C24: in one POST /api/analyze request, explainIngredients is called only
\* when analyzeLabel has returned, with exactly the result it returned; when
\* the upload or analyzeLabel raises, explainIngredients is never called and
\* the response has status 500 and an error body; a response never holds
\* the extraction without the explanation.
C24_ExplainOnlyAfterExtraction ==
  op = "POST" =>
    /\ \A k \in 1..Len(requests) :
         requests[k].fn = "explainIngredients" =>
           /\ k > 1
           /\ requests[k - 1].fn = "analyzeLabel"
           /\ Len(received) >= k - 1
           /\ received[k - 1].kind = "returned"
           /\ requests[k].input = received[k - 1].value
    /\ (\E k \in 1..Len(received) :
          /\ requests[k].fn \in {"uploadToInterfaze", "analyzeLabel"}
          /\ received[k].kind = "thrown") =>
         /\ \A k \in 1..Len(requests) : requests[k].fn # "explainIngredients"
         /\ outcome.kind = "returned"
         /\ outcome.value.status = 500
         /\ DOMAIN outcome.value.body = {"error"}
    /\ outcome.kind = "returned" =>
         \/ /\ outcome.value.status \in {400, 500}
            /\ DOMAIN outcome.value.body = {"error"}
         \/ /\ outcome.value.status = 200
            /\ DOMAIN outcome.value.body = {"ocr", "explanation"}
            /\ Len(received) = Len(requests)
            /\ outcome.value.body.ocr = received[Len(received) - 1].value
            /\ outcome.value.body.explanation = received[Len(received)].value

C24_Witness ==
  /\ op = "POST"
  /\ pc = "done"
  /\ Len(requests) = 3
  /\ requests[1].fn = "uploadToInterfaze"
  /\ requests[3].fn = "explainIngredients"
  /\ received[2].kind = "returned"
  /\ received[2].value # OCR_DEFAULT_RESULT
  /\ requests[3].input = received[2].value
  /\ outcome.value.status = 200
  /\ outcome.value.body.ocr = received[2].value

\* C25: when the upload of the file to Interfaze fails (response that is not
\* OK, or without url and id), the route goes on with a data URL of the file
\* and calls analyzeLabel with it instead of failing the request.
C25_FailedUploadFallsBackToDataUrl ==
  (/\ op = "POST"
   /\ Len(received) >= 1
   /\ requests[1].fn = "uploadToInterfaze"
   /\ response # NoResponse
   /\ \/ ~Ok(response)
      \/ (~Truthy(OptGet(response.payload, K.url)) /\ ~Truthy(OptGet(response.payload, K.id)))) =>
    /\ IsString(image_url)
    /\ StartsWithAt(image_url.s, 1, <<"d","a","t","a",":">>)
    /\ Len(requests) >= 2
    /\ requests[2] = [fn |-> "analyzeLabel", input |-> image_url]
    /\ ~(pc = "done" /\ Len(received) = 1)

====
